---- MODULE Spec2Model ----
(***************************************************************************)
(* Model of webauto.  Each component has its own specification over its    *)
(* own variables; the variables of the other components stay as they are.  *)
(*   Spec       src/src/connection/connection.py: CDPMessageManager and    *)
(*              CDPSession.  Caller tasks run ping() and execute_command() *)
(*              on one CDPSession under asyncio's cooperative scheduling:  *)
(*              every action is the code between two awaits.               *)
(*   MgrSpec    src/src/connection/connection.py: CDPSessionManager and    *)
(*              the frames each of its sessions reads from its websocket.  *)
(*   RouterSpec the event router of a session (section 4.C of the         *)
(*              specification; _handle_event_message in connection.py is   *)
(*              a stub and the router's code is in the cdpkit package),    *)
(*              fed by _receive_events of connection.py.                   *)
(*   OptSpec    src/webauto/browser/options.py: Options.check applied to   *)
(*              caller-supplied options.                                   *)
(*   ProcSpec   src/webauto/browser/chromium/context.py: BrowserProcess    *)
(*              run() and stop() and the child processes they spawn.       *)
(*   ReadySpec  src/webauto/browser/chromium/chromium.py: the readiness    *)
(*              check _verify_browser_running / _is_browser_running.       *)
(*   CtxSpec    src/webauto/browser/chromium/context.py:                   *)
(*              ContextManager.init_manager against the browser's contexts *)
(*              and targets.                                               *)
(*   GetTabSpec src/webauto/browser/chromium/context.py:                   *)
(*              BrowserContext.get_tab / new_tab / _get_tab_obj.           *)
(*   TabSpec    src/webauto/browser/tab.py and element.py: Tab.create_obj, *)
(*              _wait_page_load, go_to, refresh, close, execute_script,    *)
(*              expect_file_chooser.  TabLiveSpec adds the fairness that   *)
(*              answered commands and finished sleeps give.                *)
(*   XPathSpec  src/src/browser/element.py and src/webauto/browser/        *)
(*              element.py, constants.py: find_element / find_elements by  *)
(*              XPath on a Tab and on an Element.                          *)
(*   ElementSpec src/webauto/browser/element.py: one Element's object_id,  *)
(*              find_element(s)_by_selector, get_attribute and             *)
(*              set_input_files, each call run to its end.                 *)
(*   ParseSpec  src/webauto/browser/utils.py:                              *)
(*              RuntimeParser.parse_remote_object applied to a             *)
(*              Runtime.RemoteObject.                                      *)
(***************************************************************************)
EXTENDS Integers, Sequences, FiniteSets, TLC

\* ---------------------------------------------------------------- bounds
NumCallers == 2      \* caller tasks sharing the session
MaxCalls == 2        \* ping/execute_command calls started in a behaviour
MaxUnsolicited == 1  \* frames without a command id sent by the browser
MaxCancels == 1      \* caller-task cancellations
MaxPayload == 1      \* result payloads 0..MaxPayload; 0 is the empty object {}

Callers == 1..NumCallers
Ids == 1..MaxCalls
SockIds == 1..MaxCalls   \* a call opens at most one websocket
TaskIds == 1..MaxCalls   \* and creates at most one receive task
Payloads == 0..MaxPayload

NumRequesters == 2   \* tasks calling create_session on one manager
MaxRequests == 3     \* create_session calls started in a behaviour
MaxFrames == 2       \* frames the browser's targets write to the sessions

Requesters == 1..NumRequesters
PageIds == {"browser", "p1"}   \* 'browser' and one page's target id

MaxSubscriptions == 2   \* callbacks registered in a behaviour
MaxEvents == 3          \* event frames the browser writes in a behaviour

SubscriptionIds == 1..MaxSubscriptions
EventNames == {"Page.fileChooserOpened", "Page.loadEventFired"}

MaxArgs == 2     \* length of the caller-supplied argument list
MaxPort == 2     \* ports 1..MaxPort
MaxDir == 2      \* directory names 1..MaxDir; 0 is the empty string
MaxChecks == 2   \* calls of check on one Options object

Ports == 1..MaxPort
Dirs == 1..MaxDir

MaxRuns == 4     \* run() calls on one BrowserProcess

MaxVerifies == 2   \* readiness checks (launch or connect calls)
PingAttempts == 5  \* _is_browser_running(timeout=5)

MaxContexts == 2   \* browser contexts 1..MaxContexts; 0 is the default context
MaxTargets == 2    \* targets the browser reports
MaxNewContexts == 1   \* new_context calls on one manager

MaxTabTargets == 2  \* targets open when the BrowserContext is first used
MaxGetTabs == 2     \* get_tab calls on one BrowserContext
TargetTypes == {"page", "service_worker"}
TabContexts == {0, 1}   \* the default context and a created one

MaxTimeout == 2   \* page_load_timeout, in sleeps of the polling loop
MaxOps == 3       \* operations called on one Tab
EnableCommands == <<"Page.enable", "DOM.enable", "Runtime.enable">>
ReadyStates == <<"loading", "interactive", "complete">>
MaxFinds == 2     \* XPath lookups
MaxMatches == 2   \* nodes an XPath matches in the page
Packages == {"src", "webauto"}
Roots == {"Tab", "Element"}
Finders == {"find_element", "find_elements"}
\* the parameters of JsScripts.find_element_by_xpath / find_elements_by_xpath
JsScriptsParams == {"xpath"}
\* the arguments _find_element_by_xpath calls them with
FindArguments == {"xpath", "is_document"}
MaxBackend == 2   \* BackendNodeIds an Element is given
MaxResolves == 3  \* DOM.ResolveNode answers, each with a new RemoteObjectId
MaxNodeIds == 2   \* NodeIds a selector query answers with
MaxAttrs == 2     \* attributes of a node
MaxProps == 2     \* properties Runtime.GetProperties answers with
MaxObjects == 2   \* DOM nodes a script's result refers to
\* property names of an array object: indices, length, and a name that is no
\* index although str.isdigit() holds for it (the one character U+00B2)
PropertyNames == {"0", "1", "length", "SUPERSCRIPT TWO"}
SelectorModes == {"single", "multiple"}
TagNames == {"input", "div"}
AttrNames == {"type", "id"}
AttrValues == {"file", "text"}
TabOps == {"go_to", "refresh", "close", "execute_script", "expect_file_chooser"}

CtxIds == 1..MaxContexts
\* a target's url, as far as init_manager looks at it: its scheme
Urls == {"https://", "chrome-extension://", "devtools://"}

VARIABLES
    ws_connection,   \* CDPSession._ws_connection: 0 is None, else a socket
    receive_task,    \* CDPSession._receive_task: 0 is None, else a task
    msg_id,          \* CDPMessageManager._id
    pending,         \* keys of CDPMessageManager._pending_messages
    futures,         \* the asyncio.Future created for each command id
    socks,           \* the websockets opened so far: open flag, frames not yet
                     \* read by the client, commands not yet answered
    tasks,           \* the _receive_events tasks created so far
    calls,           \* each caller task: its position in ping/execute_command
    last_ping,       \* what the most recent ping() returned
    ncalls, nunsol, ncancel,   \* counters that bound the behaviour
    allocated,       \* history: the ids create_future returned, in order
    cmdlog           \* history per command id: what the browser replied, what
                     \* the receive loop did with it, how the call ended

vars == <<ws_connection, receive_task, msg_id, pending, futures, socks, tasks,
          calls, last_ping, ncalls, nunsol, ncancel, allocated, cmdlog>>

\* ------------------------------------------------- CDPSessionManager state
VARIABLES
    connection_dict, \* CDPSessionManager._connection_dict: page id -> session
    sessions,        \* the CDPSession objects constructed so far
    requests,        \* each task calling create_session: its position
    returned,        \* history: what every create_session call returned
    nrequests,       \* counter that bounds the behaviour
    wire,            \* frames written on a session's websocket, not yet read
    observed,        \* history: the frames each session has processed
    nframes          \* counter that bounds the behaviour

mgrVars == <<connection_dict, sessions, requests, returned, nrequests, wire,
             observed, nframes>>

\* ------------------------------------------------------- event router state
VARIABLES
    router,            \* the subscriber records, in registration order
    next_subscription, \* the last subscription id issued
    ev_wire,           \* event frames written on the websocket, not yet read
    invocations,       \* history: the callback invocations, in order
    nevents            \* counter that bounds the behaviour

routerVars == <<router, next_subscription, ev_wire, invocations, nevents>>

\* ------------------------------------------------------------ Options state
VARIABLES
    options,     \* the Options object: arguments, headless, user_data_dir
    supplied,    \* history: the arguments the caller constructed it with
    check_log    \* history: port, outcome and arguments of each check call

optVars == <<options, supplied, check_log>>

\* ----------------------------------------------------- BrowserProcess state
VARIABLES
    process,          \* BrowserProcess._process: 0 is None, else a child
    children,         \* the child processes spawned so far
    executable_path,  \* whether options.executable_path is non-empty
    nruns             \* history: the number of run() calls

procVars == <<process, children, executable_path, nruns>>

\* ---------------------------------------------------- readiness check state
VARIABLES
    ready_pc,      \* position in _is_browser_running: idle, pinging, sleeping
    ping_results,  \* what the pings of the running check returned, in order
    verify_log     \* history: outcome and pings of every finished check

readyVars == <<ready_pc, ping_results, verify_log>>

\* ----------------------------------------------------- ContextManager state
VARIABLES
    browser_contexts,      \* browser: the contexts created and not disposed
    targets,               \* browser: the targetInfos, url and browserContextId
    ctx_pc,                \* position in init_manager
    all_created_contexts,  \* init_manager's local set
    all_exists_contexts,   \* init_manager's local set
    to_visit,              \* contexts the dispose loop has not reached yet
    disposed,              \* history: contexts a dispose command was sent for
    contexts,              \* ContextManager.contexts
    cur_context_id,        \* ContextManager._cur_context_id: -1 is None
    ncreated,              \* browser: contexts made by Target.createBrowserContext
    roundtrip              \* history: the last new_context, the sets before it,
                           \* and whether delete_context of its context followed

ctxVars == <<browser_contexts, targets, ctx_pc, all_created_contexts,
             all_exists_contexts, to_visit, disposed, contexts, cur_context_id,
             ncreated, roundtrip>>

\* ----------------------------------------------------- BrowserContext state
VARIABLES
    tab_targets,         \* browser: its targets in Target.getTargets order; a
                         \* target's id is its position
    tab_context_id,      \* BrowserContext.context_id
    tab_manager,         \* the target ids that have a Tab in tab_manager
    gt_pc,               \* position in get_tab
    gt_arg,              \* get_tab's target_id argument: 0 is None
    valid_target_infos,  \* get_tab's local dict: its keys in insertion order
    gt_result,           \* history: the target of the Tab get_tab returned
    ngets                \* counter that bounds the behaviour

getTabVars == <<tab_targets, tab_context_id, tab_manager, gt_pc, gt_arg,
                valid_target_infos, gt_result, ngets>>

\* ---------------------------------------------------------------- Tab state
VARIABLES
    t_pc,                 \* position of the Tab's caller: "none" before
                          \* create_obj, "dead" when create_obj raised
    t_op,                 \* the operation in progress or last finished
    t_outcome,            \* how it finished: "returned" or the error raised
    event_enable,         \* Tab._event_enable
    enable_step,          \* which of the three enable commands is awaited
    page_load_timeout,    \* Tab.page_load_timeout, in sleeps
    elapsed,              \* loop.time() - start_time, in sleeps
    tab_backend_node_id,  \* Tab.backend_node_id: 0 is None, else the
                          \* document it is the root of
    tab_object_id,        \* Tab._object_id: 0 is None, else its document
    ws_connected,         \* the Tab's session has a websocket
    intercept,            \* browser: file chooser interception enabled
    ready_state,          \* browser: index of document.readyState
    doc_gen,              \* browser: which document the page shows
    enable_sent,          \* history: times each enable command was sent
    enable_ok,            \* history: the enable commands that succeeded
    polled,               \* history: document.readyState was evaluated
    observed_complete,    \* history: this wait read "complete"
    t_closed,             \* history: close() completed
    sent_after_close,     \* history: a command went out after close()
    fc_left,              \* history: how the last expect_file_chooser block
                          \* was left: "no", "normal", "exception"
    fc_disable_sent,      \* history: ...{enabled: false} sent for that block
    session_cached,       \* the session manager caches the target's session
    close_steps,          \* history: the steps the last close() completed
    nops                  \* counter that bounds the behaviour

tabVars == <<t_pc, t_op, t_outcome, event_enable, enable_step, page_load_timeout,
             elapsed, tab_backend_node_id, tab_object_id, ws_connected, intercept,
             ready_state, doc_gen, enable_sent, enable_ok, polled,
             observed_complete, t_closed, sent_after_close, fc_left,
             fc_disable_sent, session_cached, close_steps, nops>>

\* ------------------------------------------------------- XPath lookup state
VARIABLES
    x_pc,          \* position of the lookup
    x_package,     \* which ElementFinder runs it: src.browser or webauto.browser
    x_root,        \* a Tab (document-rooted) or an Element (node-rooted)
    x_finder,      \* find_element or find_elements
    x_matches,     \* browser: the number of nodes the XPath matches
    x_pending,     \* how the try block of the search was left
    x_outcome,     \* the lookup's result: "list", "element" or the error
    x_len,         \* the length of the list returned
    search_live,   \* browser: the search ids not discarded
    cur_search,    \* perform_search.searchId
    nsearch,       \* history: DOM.performSearch answers so far
    discard_sent,  \* history: DOM.discardSearchResults sent, per search id
    x_described,   \* history: the object ids the lookup sent DOM.describeNode for
    x_elems,       \* the BackendNodeIds of the Elements the lookup built
    nfinds         \* counter that bounds the behaviour

xpathVars == <<x_pc, x_package, x_root, x_finder, x_matches, x_pending, x_outcome,
               x_len, search_live, cur_search, nsearch, discard_sent, x_described,
               x_elems, nfinds>>

\* ------------------------------------------------------------ Element state
VARIABLES
    e_backend_node_id,  \* Element.backend_node_id; 0 is None
    e_object_id,        \* Element._object_id; 0 is None
    e_nresolved,        \* browser: RemoteObjectIds handed out by DOM.ResolveNode
    e_resolves,         \* history: DOM.ResolveNode sent since backend_node_id was set
    e_old_ids,          \* history: the ids cached when backend_node_id was set anew
    e_op,               \* the last call made on the Element
    e_in,               \* that call's arguments and the browser's answers to it
    e_out,              \* what that call returned or raised
    e_sent              \* the commands that call sent, in order

elementVars == <<e_backend_node_id, e_object_id, e_nresolved, e_resolves, e_old_ids,
                 e_op, e_in, e_out, e_sent>>

\* ------------------------------------------------------- RuntimeParser state
VARIABLES
    p_remote_object,  \* the Runtime.RemoteObject to parse
    p_result          \* what parse_remote_object returned or raised

parseVars == <<p_remote_object, p_result>>

\* the variables of the components modelled after the first six
laterVars == <<getTabVars, tabVars, xpathVars, elementVars, parseVars>>

\* what each specification leaves alone
others == <<mgrVars, routerVars, optVars, procVars, readyVars, ctxVars, laterVars>>
notMgr == <<vars, routerVars, optVars, procVars, readyVars, ctxVars, laterVars>>
notRouter == <<vars, mgrVars, optVars, procVars, readyVars, ctxVars, laterVars>>
notOpt == <<vars, mgrVars, routerVars, procVars, readyVars, ctxVars, laterVars>>
notProc == <<vars, mgrVars, routerVars, optVars, readyVars, ctxVars, laterVars>>
notReady == <<vars, mgrVars, routerVars, optVars, procVars, ctxVars, laterVars>>
notCtx == <<vars, mgrVars, routerVars, optVars, procVars, readyVars, laterVars>>
firstVars == <<vars, mgrVars, routerVars, optVars, procVars, readyVars, ctxVars>>
notGetTab == <<firstVars, tabVars, xpathVars, elementVars, parseVars>>
notTab == <<firstVars, getTabVars, xpathVars, elementVars, parseVars>>
notXPath == <<firstVars, getTabVars, tabVars, elementVars, parseVars>>
notElement == <<firstVars, getTabVars, tabVars, xpathVars, parseVars>>
notParse == <<firstVars, getTabVars, tabVars, xpathVars, elementVars>>

NoFrame == [kind |-> "none", id |-> 0, payload |-> 0]
NoLog == [reply |-> "none", replyPayload |-> 0, handled |-> "none",
          lostConn |-> FALSE, ret |-> "none"]
IdleCall == [pc |-> "idle", kind |-> "none", id |-> 0, sock |-> 0]

\* ---------------------------------------------------- CDPMessageManager
\* create_future: self._id += 1
create_future_reuse(_id) == IF _id = 0 THEN 1 ELSE _id
create_future_id(_id) == _id + 1

\* remove_pending: delete the key when present
remove_pending_keep(pend, _id) == pend
remove_pending(pend, _id) == pend \ {_id}

\* `if message.get('result')`: Python truthiness of the decoded result object
Truthy(payload) == payload # 0

Min(S) == CHOOSE x \in S : \A y \in S : x <= y

\* resolve_command: set_result on the slot of _id and remove it; a missing id
\* only logs a warning.  set_result on a future that is not pending raises
\* InvalidStateError before remove_pending runs.
resolve_command_first(pend, futs, _id, response) ==
    IF pend # {}
    THEN LET k == Min(pend) IN
         IF futs[k].st = "pending"
         THEN [pending |-> remove_pending(pend, k),
               futures |-> [futs EXCEPT ![k] = [st |-> "result", val |-> response]],
               raised |-> FALSE, handled |-> "resolved"]
         ELSE [pending |-> pend, futures |-> futs, raised |-> TRUE,
               handled |-> "invalid_state"]
    ELSE [pending |-> pend, futures |-> futs, raised |-> FALSE,
          handled |-> "dropped"]
resolve_command(pend, futs, _id, response) ==
    IF _id \in pend
    THEN IF futs[_id].st = "pending"
         THEN [pending |-> remove_pending(pend, _id),
               futures |-> [futs EXCEPT ![_id] = [st |-> "result", val |-> response]],
               raised |-> FALSE, handled |-> "resolved"]
         ELSE [pending |-> pend, futures |-> futs, raised |-> TRUE,
               handled |-> "invalid_state"]
    ELSE [pending |-> pend, futures |-> futs, raised |-> FALSE,
          handled |-> "dropped"]

\* _process_single_message: parse, then _handle_command_message for a frame
\* with an int id, _handle_event_message (a stub) otherwise.
process_single_message(pend, futs, frame) ==
    IF frame.kind = "garbage"
    THEN [pending |-> pend, futures |-> futs, raised |-> FALSE, handled |-> "unparsed"]
    ELSE IF frame.kind \in {"result", "error"}
    THEN IF frame.kind = "result" /\ Truthy(frame.payload)
         THEN resolve_command(pend, futs, frame.id, frame.payload)
         ELSE [pending |-> pend, futures |-> futs, raised |-> FALSE,
               handled |-> "logged_error"]
    ELSE [pending |-> pend, futures |-> futs, raised |-> FALSE, handled |-> "event"]

\* ------------------------------------------------------------------ Init
\* CDPSession.__init__ and CDPMessageManager.__init__
SessionInit ==
    /\ ws_connection = 0
    /\ receive_task = 0
    /\ msg_id = 0
    /\ pending = {}
    /\ futures = [i \in Ids |-> [st |-> "none", val |-> 0]]
    /\ socks = <<>>
    /\ tasks = <<>>
    /\ calls = [c \in Callers |-> IdleCall]
    /\ last_ping = "none"
    /\ ncalls = 0
    /\ nunsol = 0
    /\ ncancel = 0
    /\ allocated = <<>>
    /\ cmdlog = [i \in Ids |-> NoLog]

IdleRequest == [pc |-> "idle", page_id |-> "none"]

\* CDPSessionManager.__init__
ManagerInit ==
    /\ connection_dict = [p \in PageIds |-> 0]
    /\ sessions = <<>>
    /\ requests = [r \in Requesters |-> IdleRequest]
    /\ returned = {}
    /\ nrequests = 0
    /\ wire = {}
    /\ observed = {}
    /\ nframes = 0

\* a session's router with no subscriber
RouterInit ==
    /\ router = <<>>
    /\ next_subscription = 0
    /\ ev_wire = <<>>
    /\ invocations = <<>>
    /\ nevents = 0

\* an argument '<key>=<val>' or, with val 0, the bare flag '<key>'
Arg(key, val) == [key |-> key, val |-> val]

\* the arguments a caller may put in the list
ArgChoices ==
    {Arg("--remote-debugging-port", v) : v \in Ports}
        \cup {Arg("--user-data-dir", d) : d \in Dirs}
        \cup {Arg("--headless", 0), Arg("--no-first-run", 0), Arg("--lang", 1)}

ArgLists == UNION {[1..n -> ArgChoices] : n \in 0..MaxArgs}

\* Options(): the field defaults
OptionsDefault ==
    /\ options = [arguments |-> <<>>, headless |-> FALSE, user_data_dir |-> 0]
    /\ supplied = <<>>
    /\ check_log = <<>>

\* Options(headless=..., user_data_dir=..., arguments=[...])
OptionsSupplied ==
    /\ \E a \in ArgLists, h \in BOOLEAN, d \in {0} \cup Dirs :
            /\ options = [arguments |-> a, headless |-> h, user_data_dir |-> d]
            /\ supplied = a
    /\ check_log = <<>>

\* BrowserProcess(browser_info=...): _process is None
ProcessNew ==
    /\ process = 0
    /\ children = <<>>
    /\ nruns = 0

\* BrowserType before launch or connect
ReadyInit ==
    /\ ready_pc = "idle"
    /\ ping_results = <<>>
    /\ verify_log = <<>>

NoRoundtrip == [st |-> "none", id |-> -1, browser_before |-> {}, contexts_before |-> {}]

\* ContextManager(...): contexts is the empty set, _cur_context_id None
ContextManagerNew ==
    /\ ctx_pc = "new"
    /\ all_created_contexts = {}
    /\ all_exists_contexts = {}
    /\ to_visit = {}
    /\ disposed = {}
    /\ contexts = {}
    /\ cur_context_id = -1
    /\ ncreated = 0
    /\ roundtrip = NoRoundtrip

TargetInfos == [url : Urls, browserContextId : {0} \cup CtxIds]

\* the browser the manager attaches to: any created contexts, any targets
BrowserAny ==
    /\ browser_contexts \in SUBSET CtxIds
    /\ targets \in UNION {[1..n -> TargetInfos] : n \in 0..MaxTargets}

NoTab == [tab |-> 0, created |-> FALSE]

\* BrowserContext(context_id=...) before any get_tab
BrowserContextNew ==
    /\ tab_manager = {}
    /\ gt_pc = "idle"
    /\ gt_arg = 0
    /\ valid_target_infos = <<>>
    /\ gt_result = NoTab
    /\ ngets = 0

\* a target with a loaded page and no Tab object yet; page_load_timeout is
\* set by the caller
TabNew ==
    /\ t_pc = "none"
    /\ t_op = "create"
    /\ t_outcome = "none"
    /\ event_enable = FALSE
    /\ enable_step = 0
    /\ elapsed = 0
    /\ tab_backend_node_id = 0
    /\ tab_object_id = 0
    /\ ws_connected = FALSE
    /\ intercept = FALSE
    /\ doc_gen = 1
    /\ enable_sent = [c \in {EnableCommands[k] : k \in 1..3} |-> 0]
    /\ enable_ok = {}
    /\ polled = FALSE
    /\ observed_complete = FALSE
    /\ t_closed = FALSE
    /\ sent_after_close = FALSE
    /\ fc_left = "no"
    /\ fc_disable_sent = FALSE
    /\ session_cached = FALSE
    /\ close_steps = <<>>
    /\ nops = 0

\* no lookup made yet
FinderNew ==
    /\ x_pc = "idle"
    /\ x_package = "src"
    /\ x_root = "Tab"
    /\ x_finder = "find_element"
    /\ x_matches = 0
    /\ x_pending = "none"
    /\ x_outcome = "none"
    /\ x_len = 0
    /\ search_live = {}
    /\ cur_search = 0
    /\ nsearch = 0
    /\ discard_sent = [sid \in 1..MaxFinds |-> 0]
    /\ x_described = <<>>
    /\ x_elems = <<>>
    /\ nfinds = 0

\* Runtime.RemoteObject values: a DOM node, a value without object id, an
\* array with the properties Runtime.GetProperties answers with
RemoteObject(type, subtype, objectId, properties) ==
    [type |-> type, subtype |-> subtype, objectId |-> objectId,
     properties |-> properties]
Node(n) == RemoteObject("object", "node", n, <<>>)
Value(type) == RemoteObject(type, "none", 0, <<>>)
Null == RemoteObject("object", "null", 0, <<>>)
Array(properties) == RemoteObject("object", "array", 0, properties)
NotParsed == [kind |-> "none"]

\* what an array holds, and what a script returns
ArrayItems ==
    {Node(n) : n \in 1..MaxObjects} \cup {Null}
        \cup {Value(t) : t \in {"string", "number", "boolean"}}
PropertyLists ==
    {ps \in UNION {[1..n -> [name : PropertyNames, value : ArrayItems]] :
                      n \in 0..MaxProps} :
        \A i, j \in 1..Len(ps) : i # j => ps[i].name # ps[j].name}
RemoteObjects ==
    ArrayItems \cup {Value("undefined"), Value("function"), Value("object")}
        \cup {Array(ps) : ps \in PropertyLists}

\* an Element as _make_element builds it, before its backend_node_id is given
ElementNew ==
    /\ e_object_id = 0
    /\ e_nresolved = 0
    /\ e_resolves = 0
    /\ e_old_ids = {}
    /\ e_op = "none"
    /\ e_in = <<>>
    /\ e_out = <<>>
    /\ e_sent = <<>>

\* a Tab has no backend_node_id, an Element is given its node's
ElementInputs == e_backend_node_id \in 0..MaxBackend

TabInputs ==
    /\ page_load_timeout \in 0..MaxTimeout
    /\ ready_state \in 1..3

TabTargetInfos == [type : TargetTypes, url : Urls, browserContextId : TabContexts]

\* the browser the context belongs to: any targets
TabBrowserAny ==
    /\ tab_targets \in UNION {[1..n -> TabTargetInfos] : n \in 0..MaxTabTargets}
    /\ tab_context_id \in TabContexts

\* every component as constructed with its defaults, except the one the
\* specification named by skip constructs itself
Fresh(skip) ==
    /\ SessionInit
    /\ ManagerInit
    /\ RouterInit
    /\ IF skip = "Options" THEN TRUE ELSE OptionsDefault
    /\ ProcessNew
    /\ IF skip = "BrowserProcess" THEN TRUE ELSE executable_path = FALSE
    /\ ReadyInit
    /\ ContextManagerNew
    /\ IF skip = "Browser" THEN TRUE ELSE browser_contexts = {} /\ targets = <<>>
    /\ BrowserContextNew
    /\ TabNew
    /\ FinderNew
    /\ ElementNew
    /\ p_result = NotParsed
    /\ IF skip = "RuntimeParser" THEN TRUE ELSE p_remote_object = Value("undefined")
    /\ IF skip = "Element" THEN TRUE ELSE e_backend_node_id = 0
    /\ IF skip = "Tab" THEN TRUE ELSE page_load_timeout = MaxTimeout /\ ready_state = 3
    /\ IF skip = "BrowserContext" THEN TRUE ELSE tab_targets = <<>> /\ tab_context_id = 0

Init == Fresh("none")

OptInit == Fresh("Options") /\ OptionsSupplied

ProcInit == Fresh("BrowserProcess") /\ executable_path \in BOOLEAN

CtxInit == Fresh("Browser") /\ BrowserAny

GetTabInit == Fresh("BrowserContext") /\ TabBrowserAny

TabInit == Fresh("Tab") /\ TabInputs

\* --------------------------------------------------------------- helpers
NewSock == [open |-> TRUE, inbox |-> <<>>, unanswered |-> {}]
NewTask == [pc |-> "new", sock |-> 0, err |-> "none", errId |-> 0]

IsOpen(sk, s) == s # 0 /\ sk[s].open

\* commands whose caller awaits the response on socket s
InFlightOn(s) ==
    {calls[c].id : c \in {d \in Callers : /\ calls[d].pc = "waiting"
                                          /\ calls[d].sock = s
                                          /\ futures[calls[d].id].st = "pending"}}

\* the socket s stops being open (closed by the peer or by _cleanup)
CloseSock(sk, s) == [sk EXCEPT ![s].open = FALSE]
LogLost(log, s) ==
    [i \in Ids |-> IF i \in InFlightOn(s) /\ socks[s].open
                   THEN [log[i] EXCEPT !.lostConn = TRUE] ELSE log[i]]

\* how the execute_command call for command i ended
LogRet(log, i, ret) == IF i = 0 THEN log ELSE [log EXCEPT ![i].ret = ret]

\* _incoming_messages: the next `self.ws_connection.recv()` of receive task t.
\* The ws_connection property raises when _ws_connection is None; recv raises
\* when another coroutine is already blocked in recv on the same connection.
next_recv(t, tk, wsc) ==
    IF wsc = 0
    THEN [tk[t] EXCEPT !.pc = "failed", !.err = "not_established"]
    ELSE IF \E u \in DOMAIN tk : u # t /\ tk[u].pc = "recv" /\ tk[u].sock = wsc
    THEN [tk[t] EXCEPT !.pc = "failed", !.err = "concurrent_recv"]
    ELSE [tk[t] EXCEPT !.pc = "recv", !.sock = wsc]

\* ------------------------------------------------- ping / execute_command
\* The body of the decorated method, entered without an await once
\* _ensure_active_connection has returned; wsc and sk are the connection and
\* the sockets as they are at that moment.
MethodBody(c, kind, wsc, sk) ==
    IF kind = "ping"
    THEN /\ calls' = [calls EXCEPT ![c] = IdleCall]
         /\ last_ping' = IF IsOpen(sk, wsc) THEN "True" ELSE "False"
         /\ UNCHANGED <<msg_id, pending, futures, allocated, cmdlog>>
    ELSE LET id == create_future_id(msg_id) IN
         /\ msg_id' = id
         /\ pending' = pending \cup {id}
         /\ futures' = [futures EXCEPT ![id] = [st |-> "pending", val |-> 0]]
         /\ allocated' = Append(allocated, id)
         /\ cmdlog' = [cmdlog EXCEPT ![id] = [NoLog EXCEPT !.ret = "inflight"]]
         /\ calls' = [calls EXCEPT ![c] =
                [pc |-> "sending", kind |-> "execute", id |-> id, sock |-> wsc]]
         /\ UNCHANGED last_ping

\* async_ensure_connection + _ensure_active_connection: a call starts
StartCall(c, kind) ==
    /\ calls[c].pc = "idle"
    /\ \A d \in Callers : calls[d].pc = "idle" => c <= d
    /\ ncalls < MaxCalls
    /\ ncalls' = ncalls + 1
    /\ IF ws_connection = 0
       THEN /\ calls' = [calls EXCEPT ![c] =
                   [IdleCall EXCEPT !.pc = "connecting", !.kind = kind]]
            /\ UNCHANGED <<msg_id, pending, futures, allocated, cmdlog, last_ping>>
       ELSE MethodBody(c, kind, ws_connection, socks)
    /\ UNCHANGED others
    /\ UNCHANGED <<ws_connection, receive_task, socks, tasks, nunsol, ncancel>>

\* establish_new_connection: websockets.connect returned a connection
ConnectOk(c) ==
    /\ calls[c].pc = "connecting"
    /\ LET s == Len(socks) + 1
           sk == Append(socks, NewSock) IN
       /\ socks' = sk
       /\ ws_connection' = s
       /\ tasks' = Append(tasks, NewTask)
       /\ receive_task' = Len(tasks) + 1
       /\ MethodBody(c, calls[c].kind, s, sk)
    /\ UNCHANGED others
    /\ UNCHANGED <<ncalls, nunsol, ncancel>>

\* establish_new_connection: websockets.connect raised
ConnectFail(c) ==
    /\ calls[c].pc = "connecting"
    /\ calls' = [calls EXCEPT ![c] = IdleCall]
    /\ UNCHANGED others
    /\ UNCHANGED <<last_ping, ws_connection, receive_task, msg_id, pending, futures, socks,
                   tasks, ncalls, nunsol, ncancel, allocated, cmdlog>>

\* execute_command: ws_connection.send delivered the command
SendOk(c) ==
    /\ calls[c].pc = "sending"
    /\ IsOpen(socks, calls[c].sock)
    /\ socks' = [socks EXCEPT ![calls[c].sock].unanswered = @ \cup {calls[c].id}]
    /\ calls' = [calls EXCEPT ![c].pc = "waiting"]
    /\ UNCHANGED others
    /\ UNCHANGED <<last_ping, ws_connection, receive_task, msg_id, pending, futures, tasks,
                   ncalls, nunsol, ncancel, allocated, cmdlog>>

\* _cleanup after its `await self._ws_connection.close()`
cleanup_finish(c) ==
    /\ ws_connection' = 0
    /\ tasks' = IF receive_task # 0 /\ tasks[receive_task].pc \in {"new", "recv"}
                THEN [tasks EXCEPT ![receive_task].pc = "cancelled"]
                ELSE tasks
    /\ calls' = [calls EXCEPT ![c] = IdleCall]
    /\ cmdlog' = LogRet(cmdlog, calls[c].id, "ConnectionClosed")

\* execute_command: send raised ConnectionClosed; _cleanup starts
SendClosed(c) ==
    /\ calls[c].pc = "sending"
    /\ ~IsOpen(socks, calls[c].sock)
    /\ IF ws_connection # 0
       THEN /\ socks' = CloseSock(socks, ws_connection)
            /\ cmdlog' = LogLost(cmdlog, ws_connection)
            /\ calls' = [calls EXCEPT ![c].pc = "closing"]
            /\ UNCHANGED <<ws_connection, tasks>>
       ELSE /\ cleanup_finish(c)
            /\ UNCHANGED socks
    /\ UNCHANGED others
    /\ UNCHANGED <<last_ping, receive_task, msg_id, pending, futures, ncalls, nunsol,
                   ncancel, allocated>>

CleanupFinish(c) ==
    /\ calls[c].pc = "closing"
    /\ cleanup_finish(c)
    /\ UNCHANGED others
    /\ UNCHANGED <<last_ping, receive_task, msg_id, pending, futures, socks, ncalls,
                   nunsol, ncancel, allocated>>

\* execute_command: wait_for returned the future's result; parse_response
WaitDone(c) ==
    /\ calls[c].pc = "waiting"
    /\ futures[calls[c].id].st = "result"
    /\ calls' = [calls EXCEPT ![c] = IdleCall]
    /\ cmdlog' = LogRet(cmdlog, calls[c].id, "Result")
    /\ UNCHANGED others
    /\ UNCHANGED <<last_ping, ws_connection, receive_task, msg_id, pending, futures, socks,
                   tasks, ncalls, nunsol, ncancel, allocated>>

\* execute_command: wait_for timed out (it cancels the future), the handler
\* removes the slot and re-raises
Timeout(c) ==
    /\ calls[c].pc = "waiting"
    /\ futures[calls[c].id].st = "pending"
    /\ futures' = [futures EXCEPT ![calls[c].id].st = "cancelled"]
    /\ pending' = remove_pending(pending, calls[c].id)
    /\ calls' = [calls EXCEPT ![c] = IdleCall]
    /\ cmdlog' = LogRet(cmdlog, calls[c].id, "Timeout")
    /\ UNCHANGED others
    /\ UNCHANGED <<last_ping, ws_connection, receive_task, msg_id, socks, tasks, ncalls,
                   nunsol, ncancel, allocated>>

\* the caller task is cancelled at one of its awaits; CancelledError is caught
\* by neither handler of execute_command
Cancel(c) ==
    /\ calls[c].pc \in {"connecting", "sending", "waiting", "closing"}
    /\ ncancel < MaxCancels
    /\ ncancel' = ncancel + 1
    /\ futures' = IF calls[c].pc = "waiting" /\ futures[calls[c].id].st = "pending"
                  THEN [futures EXCEPT ![calls[c].id].st = "cancelled"]
                  ELSE futures
    /\ calls' = [calls EXCEPT ![c] = IdleCall]
    /\ cmdlog' = LogRet(cmdlog, calls[c].id, "Cancelled")
    /\ UNCHANGED others
    /\ UNCHANGED <<last_ping, ws_connection, receive_task, msg_id, pending, socks, tasks,
                   ncalls, nunsol, allocated>>

\* ---------------------------------------------------------- receive task
\* _receive_events starts running: its first recv
TaskStart(t) ==
    /\ t \in DOMAIN tasks
    /\ tasks[t].pc = "new"
    /\ tasks' = [tasks EXCEPT ![t] = next_recv(t, tasks, ws_connection)]
    /\ UNCHANGED others
    /\ UNCHANGED <<last_ping, ws_connection, receive_task, msg_id, pending, futures, socks,
                   calls, ncalls, nunsol, ncancel, allocated, cmdlog>>

\* _receive_events: recv returned a frame; _process_single_message; next recv
TaskRecv(t) ==
    /\ t \in DOMAIN tasks
    /\ tasks[t].pc = "recv"
    /\ socks[tasks[t].sock].inbox # <<>>
    /\ LET s == tasks[t].sock
           frame == Head(socks[s].inbox)
           r == process_single_message(pending, futures, frame) IN
       /\ socks' = [socks EXCEPT ![s].inbox = Tail(@)]
       /\ pending' = r.pending
       /\ futures' = r.futures
       /\ cmdlog' = IF frame.id # 0
                    THEN [cmdlog EXCEPT ![frame.id].handled = r.handled]
                    ELSE cmdlog
       /\ tasks' = IF r.raised
                   THEN [tasks EXCEPT ![t].pc = "failed", ![t].err = "invalid_state",
                                      ![t].errId = frame.id]
                   ELSE [tasks EXCEPT ![t] = next_recv(t, tasks, ws_connection)]
    /\ UNCHANGED others
    /\ UNCHANGED <<last_ping, ws_connection, receive_task, msg_id, calls, ncalls, nunsol,
                   ncancel, allocated>>

\* _receive_events: recv raised ConnectionClosed, which is caught and logged
TaskClosed(t) ==
    /\ t \in DOMAIN tasks
    /\ tasks[t].pc = "recv"
    /\ ~socks[tasks[t].sock].open
    /\ socks[tasks[t].sock].inbox = <<>>
    /\ tasks' = [tasks EXCEPT ![t].pc = "done"]
    /\ UNCHANGED others
    /\ UNCHANGED <<last_ping, ws_connection, receive_task, msg_id, pending, futures, socks,
                   calls, ncalls, nunsol, ncancel, allocated, cmdlog>>

\* --------------------------------------------------------------- browser
\* the browser answers a command it received on socket s
BrowserRespond(s, id, kind, payload) ==
    /\ s \in DOMAIN socks
    /\ socks[s].open
    /\ id \in socks[s].unanswered
    /\ kind = "error" => payload = 0
    /\ socks' = [socks EXCEPT ![s].unanswered = @ \ {id},
                              ![s].inbox = Append(@, [kind |-> kind, id |-> id,
                                                      payload |-> payload])]
    /\ cmdlog' = [cmdlog EXCEPT ![id].reply = kind, ![id].replyPayload = payload]
    /\ UNCHANGED others
    /\ UNCHANGED <<last_ping, ws_connection, receive_task, msg_id, pending, futures, tasks,
                   calls, ncalls, nunsol, ncancel, allocated>>

\* the browser sends an event, or a frame that is not JSON
BrowserUnsolicited(s, kind) ==
    /\ s \in DOMAIN socks
    /\ socks[s].open
    /\ nunsol < MaxUnsolicited
    /\ nunsol' = nunsol + 1
    /\ socks' = [socks EXCEPT ![s].inbox = Append(@, [NoFrame EXCEPT !.kind = kind])]
    /\ UNCHANGED others
    /\ UNCHANGED <<last_ping, ws_connection, receive_task, msg_id, pending, futures, tasks,
                   calls, ncalls, ncancel, allocated, cmdlog>>

\* the peer closes the WebSocket
SocketClose(s) ==
    /\ s \in DOMAIN socks
    /\ socks[s].open
    /\ socks' = CloseSock(socks, s)
    /\ cmdlog' = LogLost(cmdlog, s)
    /\ UNCHANGED others
    /\ UNCHANGED <<last_ping, ws_connection, receive_task, msg_id, pending, futures, tasks,
                   calls, ncalls, nunsol, ncancel, allocated>>

Next ==
    \/ \E c \in Callers, kind \in {"ping", "execute"} : StartCall(c, kind)
    \/ \E c \in Callers : ConnectOk(c)
    \/ \E c \in Callers : ConnectFail(c)
    \/ \E c \in Callers : SendOk(c)
    \/ \E c \in Callers : SendClosed(c)
    \/ \E c \in Callers : CleanupFinish(c)
    \/ \E c \in Callers : WaitDone(c)
    \/ \E c \in Callers : Timeout(c)
    \/ \E c \in Callers : Cancel(c)
    \/ \E t \in TaskIds : TaskStart(t)
    \/ \E t \in TaskIds : TaskRecv(t)
    \/ \E t \in TaskIds : TaskClosed(t)
    \/ \E s \in SockIds, id \in Ids, kind \in {"result", "error"}, p \in Payloads :
            BrowserRespond(s, id, kind, p)
    \/ \E s \in SockIds, kind \in {"event", "garbage"} : BrowserUnsolicited(s, kind)
    \/ \E s \in SockIds : SocketClose(s)

Spec == Init /\ [][Next]_vars

\* ===================================================== CDPSessionManager
\* _parse_ws_address: the browser's webSocketDebuggerUrl for 'browser', else
\* ws://localhost:<port>/devtools/page/<page_id>
parse_ws_address_shared(page_id) == [path |-> "browser", id |-> "browser"]
parse_ws_address(page_id) ==
    IF page_id = "browser"
    THEN [path |-> "browser", id |-> "browser"]
    ELSE [path |-> "page", id |-> page_id]

\* the target whose frames the devtools server writes on a websocket opened
\* at ws_address
TargetAt(ws_address) == ws_address.id

\* create_session: CDPSession(ws_address) is constructed, stored under
\* page_id and returned.  Field page_id is history: the id the session was
\* made for.
store_session(r, page_id) ==
    LET o == Len(sessions) + 1 IN
    /\ sessions' = Append(sessions, [ws_address |-> parse_ws_address(page_id),
                                     awaiting |-> FALSE, page_id |-> page_id])
    /\ connection_dict' = [connection_dict EXCEPT ![page_id] = o]
    /\ returned' = returned \cup {[page_id |-> page_id, session |-> o]}
    /\ requests' = [requests EXCEPT ![r] = IdleRequest]

\* create_session up to its first suspension.  `await _parse_ws_address`
\* suspends only for 'browser', whose address is fetched over HTTP.
create_session(r, page_id) ==
    /\ requests[r].pc = "idle"
    /\ nrequests < MaxRequests
    /\ nrequests' = nrequests + 1
    /\ IF connection_dict[page_id] = 0
       THEN IF page_id = "browser"
            THEN /\ requests' = [requests EXCEPT ![r] =
                        [pc |-> "resolving", page_id |-> page_id]]
                 /\ UNCHANGED <<connection_dict, sessions, returned>>
            ELSE store_session(r, page_id)
       ELSE /\ returned' = returned \cup
                    {[page_id |-> page_id, session |-> connection_dict[page_id]]}
            /\ UNCHANGED <<connection_dict, sessions, requests>>
    /\ UNCHANGED <<wire, observed, nframes>>
    /\ UNCHANGED notMgr

\* get_browser_ws_address returned data['webSocketDebuggerUrl']
AddressResolved(r) ==
    /\ requests[r].pc = "resolving"
    /\ store_session(r, requests[r].page_id)
    /\ UNCHANGED <<nrequests, wire, observed, nframes>>
    /\ UNCHANGED notMgr

\* get_browser_ws_address raised 'Failed to get websocket address'
AddressFailed(r) ==
    /\ requests[r].pc = "resolving"
    /\ requests' = [requests EXCEPT ![r] = IdleRequest]
    /\ UNCHANGED <<connection_dict, sessions, returned, nrequests, wire, observed,
                   nframes>>
    /\ UNCHANGED notMgr

\* execute_command on session o: a command is sent on o's own websocket
SessionExecute(o) ==
    /\ o \in 1..Len(sessions)
    /\ ~sessions[o].awaiting
    /\ sessions' = [sessions EXCEPT ![o].awaiting = TRUE]
    /\ UNCHANGED <<connection_dict, requests, returned, nrequests, wire, observed,
                   nframes>>
    /\ UNCHANGED notMgr

\* the target served at o's ws_address writes a frame on o's websocket: the
\* response to o's command, or an event
TargetFrame(o, kind) ==
    /\ o \in 1..Len(sessions)
    /\ nframes < MaxFrames
    /\ kind = "response" =>
            /\ sessions[o].awaiting
            /\ ~\E f \in wire : f.sock = o /\ f.kind = "response"
    /\ nframes' = nframes + 1
    /\ wire' = wire \cup {[sock |-> o, origin |-> TargetAt(sessions[o].ws_address),
                            kind |-> kind, n |-> nframes + 1]}
    /\ UNCHANGED <<connection_dict, sessions, requests, returned, nrequests,
                   observed>>
    /\ UNCHANGED notMgr

\* _receive_events of session f.sock reads f; _process_single_message
\* resolves the command or hands the frame to _handle_event_message
SessionReceive(f) ==
    /\ f \in wire
    /\ wire' = wire \ {f}
    /\ observed' = observed \cup
            {[session |-> f.sock, origin |-> f.origin, kind |-> f.kind]}
    /\ sessions' = IF f.kind = "response"
                   THEN [sessions EXCEPT ![f.sock].awaiting = FALSE]
                   ELSE sessions
    /\ UNCHANGED <<connection_dict, requests, returned, nrequests, nframes>>
    /\ UNCHANGED notMgr

MgrNext ==
    \/ \E r \in Requesters, p \in PageIds : create_session(r, p)
    \/ \E r \in Requesters : AddressResolved(r)
    \/ \E r \in Requesters : AddressFailed(r)
    \/ \E o \in 1..MaxRequests : SessionExecute(o)
    \/ \E o \in 1..MaxRequests, kind \in {"response", "event"} : TargetFrame(o, kind)
    \/ \E f \in wire : SessionReceive(f)

MgrSpec == Init /\ [][MgrNext]_mgrVars

\* ============================================================ event router
\* on(event, callback, temporary) -> register(event_name, callback, one_shot):
\* the subscription id is monotonic within the router
Register(event_name, one_shot) ==
    /\ next_subscription < MaxSubscriptions
    /\ next_subscription' = next_subscription + 1
    /\ router' = Append(router, [id |-> next_subscription + 1,
                                 event_name |-> event_name, one_shot |-> one_shot])
    /\ UNCHANGED <<ev_wire, invocations, nevents>>
    /\ UNCHANGED notRouter

\* unregister(subscription_id)
Unregister(id) ==
    /\ \E k \in DOMAIN router : router[k].id = id
    /\ router' = SelectSeq(router, LAMBDA sub : sub.id # id)
    /\ UNCHANGED <<next_subscription, ev_wire, invocations, nevents>>
    /\ UNCHANGED notRouter

\* the browser writes an event frame; n is its position in wire order
EventArrives(event_name) ==
    /\ nevents < MaxEvents
    /\ nevents' = nevents + 1
    /\ ev_wire' = Append(ev_wire, [n |-> nevents + 1, event_name |-> event_name])
    /\ UNCHANGED <<router, next_subscription, invocations>>
    /\ UNCHANGED notRouter

\* _incoming_messages: recv() yields the frames in the order they were
\* written; the index in ev_wire of the frame read next
next_frame_newest(w) == Len(w)
next_frame(w) == 1

\* dispatch(event_name, payload): the subscribers of the event in registration
\* order; fails holds the subscriptions whose callback raises
Subscribers(rt, event_name) == SelectSeq(rt, LAMBDA sub : sub.event_name = event_name)

dispatch_invocations(rt, frame, fails) ==
    LET subs == Subscribers(rt, frame.event_name) IN
    [k \in 1..Len(subs) |->
        [event |-> frame.n, sub |-> subs[k].id, one_shot |-> subs[k].one_shot]]

\* a one-shot subscriber is removed after a successful invocation
dispatch_router(rt, frame, fails) ==
    SelectSeq(rt, LAMBDA sub :
        ~(sub.event_name = frame.event_name /\ sub.one_shot /\ sub.id \notin fails))

\* _receive_events reads the next frame and awaits _process_single_message,
\* which hands a frame without id to _handle_event_message: the dispatch
ReceiveEvent(fails) ==
    /\ ev_wire # <<>>
    /\ LET i == next_frame(ev_wire)
           frame == ev_wire[i] IN
       /\ fails \subseteq {router[k].id : k \in DOMAIN router}
       /\ ev_wire' = [k \in 1..(Len(ev_wire) - 1) |->
                        IF k < i THEN ev_wire[k] ELSE ev_wire[k + 1]]
       /\ invocations' = invocations \o dispatch_invocations(router, frame, fails)
       /\ router' = dispatch_router(router, frame, fails)
    /\ UNCHANGED <<next_subscription, nevents>>
    /\ UNCHANGED notRouter

RouterNext ==
    \/ \E e \in EventNames, one_shot \in BOOLEAN : Register(e, one_shot)
    \/ \E id \in SubscriptionIds : Unregister(id)
    \/ \E e \in EventNames : EventArrives(e)
    \/ \E fails \in SUBSET SubscriptionIds : ReceiveEvent(fails)

RouterSpec == Init /\ [][RouterNext]_routerVars

\* ================================================================= Options
InArgs(arguments, a) == \E k \in DOMAIN arguments : arguments[k] = a

\* options_args_dict = {arg.split('=')[0]: arg for arg in arguments}: a key is
\* in the dict when some argument has it, and maps to the last such argument
InDict(arguments, key) == \E k \in DOMAIN arguments : arguments[k].key = key
DictGet(arguments, key) ==
    LET ks == {k \in DOMAIN arguments : arguments[k].key = key} IN
    arguments[CHOOSE k \in ks : \A j \in ks : j <= k]

\* remove_argument: list.remove drops the first element equal to a
remove_argument(arguments, a) ==
    IF InArgs(arguments, a)
    THEN LET i == Min({k \in DOMAIN arguments : arguments[k] = a}) IN
         [k \in 1..(Len(arguments) - 1) |->
            IF k < i THEN arguments[k] ELSE arguments[k + 1]]
    ELSE arguments

\* A check in progress: the list and the exception raised so far; once an
\* exception is raised the remaining statements do not run.
remove_step(st, a) ==
    IF st.err # "none" THEN st
    ELSE [st EXCEPT !.arguments = remove_argument(@, a)]

\* add_argument: append, or raise when the list already holds the argument
add_argument(st, a) ==
    IF st.err # "none" THEN st
    ELSE IF ~InArgs(st.arguments, a)
         THEN [st EXCEPT !.arguments = Append(@, a)]
         ELSE [st EXCEPT !.err = "ArgumentAlreadyExistsInOptions"]

add_default_arguments(st) ==
    add_argument(
        add_argument(
            add_argument(st, Arg("--no-first-run", 0)),
            Arg("--no-default-browser-check", 0)),
        Arg("--enable-experimental-web-platform-features", 0))

\* _delete_options_arguments; dict is the list options_args_dict was built of
delete_options_arguments(st, dict) ==
    IF InDict(dict, "--remote-debugging-port")
    THEN remove_step(st, DictGet(dict, "--remote-debugging-port"))
    ELSE st

set_headless(st, dict, headless) ==
    IF headless /\ ~InDict(dict, "--headless")
    THEN add_argument(st, Arg("--headless", 0))
    ELSE st

\* _set_user_data_dir; without the option nothing is added (todo in the code)
set_user_data_dir(st, dict, user_data_dir) ==
    IF user_data_dir # 0
    THEN add_argument(
            IF InDict(dict, "--user-data-dir")
            THEN remove_step(st, DictGet(dict, "--user-data-dir"))
            ELSE st,
            Arg("--user-data-dir", user_data_dir))
    ELSE st

\* Options.check(remote_port)
check(o, remote_port) ==
    LET dict == o.arguments
        s0 == [arguments |-> o.arguments, err |-> "none"]
        s1 == delete_options_arguments(s0, dict)
        s2 == set_headless(s1, dict, o.headless)
        s3 == set_user_data_dir(s2, dict, o.user_data_dir)
        s4 == add_default_arguments(s3)
    IN  add_argument(s4, Arg("--remote-debugging-port", remote_port))

\* a caller (BrowserInfo.model_post_init) calls options.check(remote_port)
Check(remote_port) ==
    /\ Len(check_log) < MaxChecks
    /\ LET r == check(options, remote_port) IN
       /\ options' = [options EXCEPT !.arguments = r.arguments]
       /\ check_log' = Append(check_log, [port |-> remote_port, err |-> r.err,
                                          arguments |-> r.arguments])
    /\ UNCHANGED supplied
    /\ UNCHANGED notOpt

OptNext == \E remote_port \in Ports : Check(remote_port)

OptSpec == OptInit /\ [][OptNext]_optVars

\* ========================================================== BrowserProcess
\* run: `if self._process is None and ...executable_path`
run_spawns_always(proc, path) == path
run_spawns(proc, path) == proc = 0 /\ path

\* run(); Popen either starts a child or raises OSError.  A child is a record
\* of its status and of owned: spawned by run and not yet stopped by stop.
Run(popen_ok) ==
    /\ nruns < MaxRuns
    /\ nruns' = nruns + 1
    /\ IF run_spawns(process, executable_path) /\ popen_ok
       THEN /\ children' = Append(children, [status |-> "running", owned |-> TRUE,
                                            signals |-> <<>>, waited |-> "none"])
            /\ process' = Len(children) + 1
       ELSE UNCHANGED <<process, children>>
    /\ UNCHANGED executable_path
    /\ UNCHANGED notProc

\* except subprocess.TimeoutExpired: self._process.kill()
stop_kills_always(waited) == TRUE
stop_kills(waited) == waited = "TimeoutExpired"

\* stop(): nothing without a process; else terminate(), wait(timeout=3),
\* kill() on TimeoutExpired, then _process = None; in_time says whether the
\* child exits within the 3 s.  signals and waited are the child's history.
Stop(in_time) ==
    /\ IF process = 0
       THEN UNCHANGED <<process, children>>
       ELSE LET child == children[process]
                waited == IF child.status = "exited" \/ in_time THEN "returned"
                          ELSE "TimeoutExpired" IN
            /\ children' = [children EXCEPT ![process] =
                    [status |-> IF child.status = "exited" THEN "exited"
                                ELSE IF waited = "returned" THEN "terminated"
                                ELSE IF stop_kills(waited) THEN "killed"
                                ELSE "running",
                     owned |-> FALSE,
                     signals |-> child.signals \o
                         (IF stop_kills(waited) THEN <<"terminate", "kill">>
                          ELSE <<"terminate">>),
                     waited |-> waited]]
            /\ process' = 0
    /\ UNCHANGED <<executable_path, nruns>>
    /\ UNCHANGED notProc

\* a child exits by itself (the browser is closed or crashes)
ChildExits(k) ==
    /\ k \in DOMAIN children
    /\ children[k].status = "running"
    /\ children' = [children EXCEPT ![k].status = "exited"]
    /\ UNCHANGED <<process, executable_path, nruns>>
    /\ UNCHANGED notProc

ProcNext ==
    \/ \E popen_ok \in BOOLEAN : Run(popen_ok)
    \/ \E in_time \in BOOLEAN : Stop(in_time)
    \/ \E k \in 1..MaxRuns : ChildExits(k)

ProcSpec == ProcInit /\ [][ProcNext]_procVars

\* ========================================================= readiness check
\* `for _ in range(timeout)`: after n iterations the loop has another one
loop_continues_inclusive(n, timeout) == n <= timeout
loop_continues(n, timeout) == n < timeout

\* the check ends: _verify_browser_running returns, raises BrowserLaunchError,
\* or lets the exception of a ping through
verify_ends(outcome, pings) ==
    /\ verify_log' = Append(verify_log, [outcome |-> outcome, pings |-> pings])
    /\ ready_pc' = "idle"

\* _init_connect calls _verify_browser_running; the loop's first iteration
\* awaits ping()
VerifyStart ==
    /\ ready_pc = "idle"
    /\ Len(verify_log) < MaxVerifies
    /\ ping_results' = <<>>
    /\ IF loop_continues(0, PingAttempts)
       THEN ready_pc' = "pinging" /\ UNCHANGED verify_log
       ELSE verify_ends("BrowserLaunchError", <<>>)
    /\ UNCHANGED notReady

\* ping() returned True or False, or raised out of _ensure_active_connection
PingReturns(result) ==
    /\ ready_pc = "pinging"
    /\ ping_results' = Append(ping_results, result)
    /\ IF result = "True" THEN verify_ends("returned", ping_results')
       ELSE IF result = "False" THEN ready_pc' = "sleeping" /\ UNCHANGED verify_log
       ELSE verify_ends("PingRaised", ping_results')
    /\ UNCHANGED notReady

\* asyncio.sleep(1) is over: the next iteration, or `return False` and
\* `raise BrowserLaunchError`
SleepDone ==
    /\ ready_pc = "sleeping"
    /\ IF loop_continues(Len(ping_results), PingAttempts)
       THEN ready_pc' = "pinging" /\ UNCHANGED verify_log
       ELSE verify_ends("BrowserLaunchError", ping_results)
    /\ UNCHANGED ping_results
    /\ UNCHANGED notReady

ReadyNext ==
    \/ VerifyStart
    \/ \E result \in {"True", "False", "raise"} : PingReturns(result)
    \/ SleepDone

ReadySpec == Init /\ [][ReadyNext]_readyVars

\* ========================================================== ContextManager
startswith(url, prefix) == url = prefix

\* the loop over target_infos: browserContextId of every target whose url
\* starts with neither chrome-extension:// nor devtools://
exists_contexts(target_infos) ==
    {target_infos[k].browserContextId : k \in
        {j \in DOMAIN target_infos :
            ~(startswith(target_infos[j].url, "chrome-extension://")
              \/ startswith(target_infos[j].url, "devtools://"))}}

\* `if context_id not in all_exists_contexts`
needs_dispose_any(context_id, exists) == TRUE
needs_dispose(context_id, exists) == context_id \notin exists

\* a command raised: init_manager ends with that exception
CommandFailed ==
    /\ ctx_pc' = "error"
    /\ UNCHANGED <<browser_contexts, all_created_contexts, all_exists_contexts,
                   to_visit, contexts, cur_context_id>>

\* all_created_contexts = set(await self._get_browser_contexts())
GetBrowserContexts(ok) ==
    /\ ctx_pc = "new"
    /\ IF ok
       THEN /\ all_created_contexts' = browser_contexts
            /\ ctx_pc' = "targets"
            /\ UNCHANGED <<browser_contexts, all_exists_contexts, to_visit, contexts,
                           cur_context_id>>
       ELSE CommandFailed
    /\ UNCHANGED <<targets, disposed>>
    /\ UNCHANGED <<ncreated, roundtrip>>
    /\ UNCHANGED notCtx

\* Target.GetTargets and the loop that fills all_exists_contexts
GetTargets(ok) ==
    /\ ctx_pc = "targets"
    /\ IF ok
       THEN /\ all_exists_contexts' = exists_contexts(targets)
            /\ to_visit' = all_created_contexts
            /\ ctx_pc' = "disposing"
            /\ UNCHANGED <<browser_contexts, all_created_contexts, contexts,
                           cur_context_id>>
       ELSE CommandFailed
    /\ UNCHANGED <<targets, disposed>>
    /\ UNCHANGED <<ncreated, roundtrip>>
    /\ UNCHANGED notCtx

\* the dispose loop reaches context_id, in the set's iteration order, and
\* awaits Target.DisposeBrowserContext for it
Dispose(context_id, ok) ==
    /\ ctx_pc = "disposing"
    /\ context_id \in to_visit
    /\ needs_dispose(context_id, all_exists_contexts)
    /\ disposed' = disposed \cup {context_id}
    /\ IF ok
       THEN /\ browser_contexts' = browser_contexts \ {context_id}
            /\ to_visit' = to_visit \ {context_id}
            /\ UNCHANGED <<ctx_pc, all_created_contexts, all_exists_contexts, contexts,
                           cur_context_id>>
       ELSE CommandFailed
    /\ UNCHANGED targets
    /\ UNCHANGED <<ncreated, roundtrip>>
    /\ UNCHANGED notCtx

\* the loop is over: self.contexts = all_exists_contexts.copy(), then
\* self._cur_context_id = all_exists_contexts.pop(), a KeyError on the empty set
Finish ==
    /\ ctx_pc = "disposing"
    /\ \A c \in to_visit : ~needs_dispose(c, all_exists_contexts)
    /\ contexts' = all_exists_contexts
    /\ IF all_exists_contexts = {}
       THEN ctx_pc' = "KeyError" /\ UNCHANGED cur_context_id
       ELSE ctx_pc' = "done" /\ cur_context_id' \in all_exists_contexts
    /\ to_visit' = {}
    /\ UNCHANGED <<browser_contexts, targets, all_created_contexts,
                   all_exists_contexts, disposed>>
    /\ UNCHANGED <<ncreated, roundtrip>>
    /\ UNCHANGED notCtx

\* delete_context: self.contexts.remove(browser_context_id)
remove_context_keep(ctxs, id) == ctxs
remove_context(ctxs, id) == ctxs \ {id}

\* new_context: Target.CreateBrowserContext answers with a context id the
\* browser has not used before, which is added to self.contexts; or the
\* command raises
NewContext(ok) ==
    /\ ctx_pc = "done"
    /\ ncreated < MaxNewContexts
    /\ IF ok
       THEN LET id == MaxContexts + ncreated + 1 IN
            /\ ncreated' = ncreated + 1
            /\ browser_contexts' = browser_contexts \cup {id}
            /\ contexts' = contexts \cup {id}
            /\ roundtrip' = [st |-> "created", id |-> id,
                             browser_before |-> browser_contexts,
                             contexts_before |-> contexts]
       ELSE /\ roundtrip' = NoRoundtrip
            /\ UNCHANGED <<ncreated, browser_contexts, contexts>>
    /\ UNCHANGED <<targets, ctx_pc, all_created_contexts, all_exists_contexts,
                   to_visit, disposed, cur_context_id>>
    /\ UNCHANGED notCtx

\* delete_context(id): remove raises KeyError for an id the manager does not
\* hold; else the id is removed and Target.DisposeBrowserContext is awaited,
\* which the browser answers with an error for a context it does not have
DeleteContext(id, ok) ==
    /\ ctx_pc = "done"
    /\ ok => id \in browser_contexts
    /\ IF id \notin contexts
       THEN /\ ~ok
            /\ roundtrip' = NoRoundtrip
            /\ UNCHANGED <<contexts, browser_contexts>>
       ELSE /\ contexts' = remove_context(contexts, id)
            /\ browser_contexts' = IF ok THEN browser_contexts \ {id}
                                   ELSE browser_contexts
            /\ roundtrip' = IF ok /\ roundtrip.st = "created" /\ roundtrip.id = id
                            THEN [roundtrip EXCEPT !.st = "deleted"]
                            ELSE NoRoundtrip
    /\ UNCHANGED <<targets, ctx_pc, all_created_contexts, all_exists_contexts,
                   to_visit, disposed, cur_context_id, ncreated>>
    /\ UNCHANGED notCtx

CtxNext ==
    \/ \E ok \in BOOLEAN : GetBrowserContexts(ok)
    \/ \E ok \in BOOLEAN : GetTargets(ok)
    \/ \E c \in CtxIds, ok \in BOOLEAN : Dispose(c, ok)
    \/ Finish
    \/ \E ok \in BOOLEAN : NewContext(ok)
    \/ \E id \in 0..(MaxContexts + MaxNewContexts), ok \in BOOLEAN :
            DeleteContext(id, ok)

CtxSpec == CtxInit /\ [][CtxNext]_ctxVars

\* ========================================================== BrowserContext
\* _get_valid_target_infos: the targets Target.GetTargets reports under the
\* filter type 'page', of this context, whose url starts with neither
\* chrome-extension:// nor devtools://; the dict's keys in insertion order
get_valid_target_infos(infos, ctx) ==
    SelectSeq([k \in DOMAIN infos |-> k], LAMBDA k :
        /\ infos[k].type = "page"
        /\ infos[k].browserContextId = ctx
        /\ ~(startswith(infos[k].url, "chrome-extension://")
             \/ startswith(infos[k].url, "devtools://")))

\* list(valid_target_infos.keys())[-1]
last_target_id_first(keys) == keys[1]
last_target_id(keys) == keys[Len(keys)]

InSeq_any(seq, x) == TRUE
InSeq(seq, x) == \E k \in DOMAIN seq : seq[k] = x

\* _get_tab_obj(target_id): the Tab tab_manager holds, else Tab.create_obj;
\* created says whether new_tab made the target
get_tab_obj(target_id, created) ==
    IF target_id \in tab_manager
    THEN /\ gt_pc' = "returned"
         /\ gt_result' = [tab |-> target_id, created |-> created]
    ELSE /\ gt_pc' = "tab"
         /\ gt_result' = [tab |-> target_id, created |-> created]

\* get_tab(target_id) until its next suspension: Target.GetTargets answered
\* (or raised)
GetTab(target_id, ok) ==
    /\ gt_pc \in {"idle", "returned", "error", "TabNotFoundError"}
    /\ ngets < MaxGetTabs
    /\ ngets' = ngets + 1
    /\ gt_arg' = target_id
    /\ IF ~ok
       THEN gt_pc' = "error" /\ gt_result' = NoTab /\ UNCHANGED valid_target_infos
       ELSE LET valid == get_valid_target_infos(tab_targets, tab_context_id) IN
            /\ valid_target_infos' = valid
            /\ IF target_id # 0
               THEN IF InSeq(valid, target_id)
                    THEN get_tab_obj(target_id, FALSE)
                    ELSE gt_pc' = "TabNotFoundError" /\ gt_result' = NoTab
               ELSE IF valid = <<>>
                    THEN gt_pc' = "creating" /\ gt_result' = NoTab
                    ELSE get_tab_obj(last_target_id(valid), FALSE)
    /\ UNCHANGED <<tab_targets, tab_context_id, tab_manager>>
    /\ UNCHANGED notGetTab

\* new_tab: Target.CreateTarget(url='', browser_context_id=self.tab_context_id)
\* answered with the new target's id, or raised
CreateTarget(ok) ==
    /\ gt_pc = "creating"
    /\ IF ok
       THEN /\ tab_targets' = Append(tab_targets,
                    [type |-> "page", url |-> "about:blank",
                     browserContextId |-> tab_context_id])
            /\ get_tab_obj(Len(tab_targets) + 1, TRUE)
       ELSE gt_pc' = "error" /\ UNCHANGED <<tab_targets, gt_result>>
    /\ UNCHANGED <<tab_context_id, tab_manager, gt_arg, valid_target_infos, ngets>>
    /\ UNCHANGED notGetTab

\* Tab.create_obj: the session is fetched and _wait_page_load awaited, then
\* tab_manager[target_id] = tab; or one of them raised
TabCreated(ok) ==
    /\ gt_pc = "tab"
    /\ IF ok
       THEN gt_pc' = "returned" /\ tab_manager' = tab_manager \cup {gt_result.tab}
       ELSE gt_pc' = "error" /\ UNCHANGED tab_manager
    /\ UNCHANGED <<tab_targets, tab_context_id, gt_arg, valid_target_infos, gt_result,
                   ngets>>
    /\ UNCHANGED notGetTab

GetTabNext ==
    \/ \E target_id \in 0..(MaxTabTargets + 1), ok \in BOOLEAN : GetTab(target_id, ok)
    \/ \E ok \in BOOLEAN : CreateTarget(ok)
    \/ \E ok \in BOOLEAN : TabCreated(ok)

GetTabSpec == GetTabInit /\ [][GetTabNext]_getTabVars

\* ===================================================================== Tab
\* while loop.time() - start_time < self.page_load_timeout
page_loading_forever(e, timeout) == TRUE
page_loading(e, timeout) == e < timeout

\* if not self._event_enable
needs_enable_always(flag) == TRUE
needs_enable(flag) == ~flag

\* the node property: DOM.GetDocument's root is returned and not stored
node_stores_root(backend, root) == root
node_stores(backend, root) == backend

\* an exception leaves the operation; one out of create_obj leaves no Tab
Raise(op, err) ==
    /\ t_pc' = IF op = "create" THEN "dead" ELSE "idle"
    /\ t_outcome' = err

\* the head of the polling loop at elapsed time e: the next evaluation of
\* document.readyState is sent, or the else branch raises
LoopHead(op, e) ==
    IF page_loading(e, page_load_timeout)
    THEN t_pc' = "poll" /\ t_outcome' = "none" /\ polled' = TRUE
    ELSE Raise(op, "TimeoutError") /\ polled' = polled

\* _wait_page_load from its first line to its first suspension
WaitPageLoad(op) ==
    /\ observed_complete' = FALSE
    /\ IF needs_enable(event_enable)
       THEN /\ t_pc' = "enable"
            /\ t_outcome' = "none"
            /\ enable_step' = 1
            /\ enable_sent' = [enable_sent EXCEPT ![EnableCommands[1]] = @ + 1]
            /\ UNCHANGED <<elapsed, polled>>
       ELSE /\ elapsed' = 0
            /\ LoopHead(op, 0)
            /\ UNCHANGED <<enable_step, enable_sent>>

\* Tab.create_obj: session_manager.get_session answered (or raised), the
\* Tab is constructed and _wait_page_load starts
CreateObj(ok) ==
    /\ t_pc = "none"
    /\ IF ok
       THEN ws_connected' = TRUE /\ WaitPageLoad("create")
       ELSE /\ Raise("create", "error")
            /\ UNCHANGED <<ws_connected, observed_complete, enable_step,
                           enable_sent, elapsed, polled>>
    /\ UNCHANGED <<t_op, event_enable, page_load_timeout, tab_backend_node_id,
                   tab_object_id, intercept, ready_state, doc_gen, enable_ok,
                   t_closed, sent_after_close, fc_left, fc_disable_sent, nops>>
    /\ session_cached' = ok
    /\ UNCHANGED close_steps
    /\ UNCHANGED notTab

\* Page.Enable / DOM.Enable / Runtime.Enable answered, or raised
EnableAnswered(ok) ==
    /\ t_pc = "enable"
    /\ IF ~ok
       THEN /\ Raise(t_op, "error")
            /\ UNCHANGED <<enable_step, enable_sent, enable_ok, event_enable,
                           elapsed, polled>>
       ELSE /\ enable_ok' = enable_ok \cup {EnableCommands[enable_step]}
            /\ IF enable_step < 3
               THEN /\ enable_step' = enable_step + 1
                    /\ enable_sent' =
                         [enable_sent EXCEPT ![EnableCommands[enable_step + 1]] = @ + 1]
                    /\ UNCHANGED <<t_pc, t_outcome, event_enable, elapsed, polled>>
               ELSE /\ event_enable' = TRUE
                    /\ elapsed' = 0
                    /\ LoopHead(t_op, 0)
                    /\ UNCHANGED <<enable_step, enable_sent>>
    /\ UNCHANGED <<t_op, page_load_timeout, tab_backend_node_id, tab_object_id,
                   ws_connected, intercept, ready_state, doc_gen, observed_complete,
                   t_closed, sent_after_close, fc_left, fc_disable_sent, nops>>
    /\ UNCHANGED <<session_cached, close_steps>>
    /\ UNCHANGED notTab

\* execute_script(document.readyState) answered with the browser's value, or
\* raised; on 'complete' backend_node_id is reset and self.node awaited
PollAnswered(ok) ==
    /\ t_pc = "poll"
    /\ IF ~ok
       THEN Raise(t_op, "error") /\ UNCHANGED <<observed_complete, tab_backend_node_id>>
       ELSE IF ReadyStates[ready_state] = "complete"
            THEN /\ observed_complete' = TRUE
                 /\ tab_backend_node_id' = 0
                 /\ t_pc' = "node"
                 /\ UNCHANGED t_outcome
            ELSE /\ t_pc' = "sleep"
                 /\ UNCHANGED <<t_outcome, observed_complete, tab_backend_node_id>>
    /\ UNCHANGED <<t_op, event_enable, enable_step, page_load_timeout, elapsed,
                   tab_object_id, ws_connected, intercept, ready_state, doc_gen,
                   enable_sent, enable_ok, polled, t_closed, sent_after_close,
                   fc_left, fc_disable_sent, nops>>
    /\ UNCHANGED <<session_cached, close_steps>>
    /\ UNCHANGED notTab

\* await self.node: DOM.GetDocument answered, _wait_page_load returns; or
\* raised
NodeAnswered(ok) ==
    /\ t_pc = "node"
    /\ IF ok
       THEN /\ tab_backend_node_id' = node_stores(tab_backend_node_id, doc_gen)
            /\ t_pc' = "idle"
            /\ t_outcome' = "returned"
       ELSE Raise(t_op, "error") /\ UNCHANGED tab_backend_node_id
    /\ UNCHANGED <<t_op, event_enable, enable_step, page_load_timeout, elapsed,
                   tab_object_id, ws_connected, intercept, ready_state, doc_gen,
                   enable_sent, enable_ok, polled, observed_complete, t_closed,
                   sent_after_close, fc_left, fc_disable_sent, nops>>
    /\ UNCHANGED <<session_cached, close_steps>>
    /\ UNCHANGED notTab

\* asyncio.sleep(0.5) is over and the loop condition is evaluated again
TabSleepDone ==
    /\ t_pc = "sleep"
    /\ elapsed' = IF elapsed > MaxTimeout THEN elapsed ELSE elapsed + 1
    /\ LoopHead(t_op, elapsed')
    /\ UNCHANGED <<t_op, event_enable, enable_step, page_load_timeout,
                   tab_backend_node_id, tab_object_id, ws_connected, intercept,
                   ready_state, doc_gen, enable_sent, enable_ok, observed_complete,
                   t_closed, sent_after_close, fc_left, fc_disable_sent, nops>>
    /\ UNCHANGED <<session_cached, close_steps>>
    /\ UNCHANGED notTab

\* browser: the document goes on loading
DocumentProgress ==
    /\ t_pc \notin {"none", "dead"}
    /\ ready_state < 3
    /\ ready_state' = ready_state + 1
    /\ UNCHANGED <<t_pc, t_op, t_outcome, event_enable, enable_step,
                   page_load_timeout, elapsed, tab_backend_node_id, tab_object_id,
                   ws_connected, intercept, doc_gen, enable_sent, enable_ok, polled,
                   observed_complete, t_closed, sent_after_close, fc_left,
                   fc_disable_sent, nops>>
    /\ UNCHANGED <<session_cached, close_steps>>
    /\ UNCHANGED notTab

\* the object_id property: DOM.ResolveNode's answer for document doc is
\* cached when nothing is cached and backend_node_id is set
object_id(cached, backend, doc) ==
    IF cached = 0 /\ backend # 0 THEN doc ELSE cached

\* close(): what is awaited after each step
close_then_skip(step) == "session.close"
close_then(step) ==
    IF step = "Page.close" THEN "remove_session" ELSE "session.close"

\* an operation is called on the Tab and runs to its first command:
\* execute_method has no guard, and a session without a websocket connects
\* again before it sends
OpStart(op) ==
    /\ t_pc = "idle"
    /\ nops < MaxOps
    /\ nops' = nops + 1
    /\ t_op' = op
    /\ t_outcome' = "none"
    /\ ws_connected' = TRUE
    /\ sent_after_close' = (sent_after_close \/ t_closed)
    /\ t_pc' = "command"
    /\ IF op = "expect_file_chooser"
       THEN fc_left' = "no" /\ fc_disable_sent' = FALSE
       ELSE UNCHANGED <<fc_left, fc_disable_sent>>
    /\ UNCHANGED <<event_enable, enable_step, page_load_timeout, elapsed,
                   tab_backend_node_id, tab_object_id, intercept, ready_state,
                   doc_gen, enable_sent, enable_ok, polled, observed_complete,
                   t_closed>>
    /\ close_steps' = IF op = "close" THEN <<>> ELSE close_steps
    /\ UNCHANGED session_cached
    /\ UNCHANGED notTab

\* the operation's first command answered, or raised: Page.Navigate and
\* Page.Reload start a document and _wait_page_load; Page.Close is followed
\* by remove_session and session.close(); a script that mentions this is
\* called on self.object_id and its result returned;
\* Page.SetInterceptFileChooserDialog(enabled=True) is followed by self.on
CommandAnswered(ok) ==
    /\ t_pc = "command"
    /\ IF ~ok
       THEN /\ Raise(t_op, "error")
            /\ UNCHANGED <<observed_complete, enable_step, enable_sent, elapsed,
                           polled, ready_state, doc_gen, intercept, tab_object_id>>
       ELSE CASE t_op \in {"go_to", "refresh"} ->
                   /\ doc_gen' = doc_gen + 1
                   /\ ready_state' \in 1..3
                   /\ WaitPageLoad(t_op)
                   /\ UNCHANGED <<intercept, tab_object_id>>
              [] t_op = "close" ->
                   /\ t_pc' = close_then("Page.close")
                   /\ UNCHANGED <<t_outcome, observed_complete, enable_step,
                                  enable_sent, elapsed, polled, ready_state, doc_gen,
                                  intercept, tab_object_id>>
              [] t_op = "execute_script" ->
                   /\ t_pc' = "idle"
                   /\ t_outcome' = "returned"
                   /\ tab_object_id' = object_id(tab_object_id, tab_backend_node_id, doc_gen)
                   /\ UNCHANGED <<observed_complete, enable_step, enable_sent,
                                  elapsed, polled, ready_state, doc_gen, intercept>>
              [] t_op = "expect_file_chooser" ->
                   /\ intercept' = TRUE
                   /\ t_pc' = "fc_on"
                   /\ UNCHANGED <<t_outcome, observed_complete, enable_step,
                                  enable_sent, elapsed, polled, ready_state, doc_gen,
                                  tab_object_id>>
    /\ UNCHANGED <<t_op, event_enable, page_load_timeout, tab_backend_node_id,
                   ws_connected, enable_ok, t_closed, sent_after_close, fc_left,
                   fc_disable_sent, nops>>
    /\ close_steps' = IF ok /\ t_op = "close" THEN <<"Page.close">> ELSE close_steps
    /\ UNCHANGED session_cached
    /\ UNCHANGED notTab

\* close: session_manager.remove_session(target_id) returned
SessionRemoved ==
    /\ t_pc = "remove_session"
    /\ t_pc' = close_then("remove_session")
    /\ session_cached' = FALSE
    /\ close_steps' = Append(close_steps, "remove_session")
    /\ UNCHANGED <<t_op, t_outcome, event_enable, enable_step, page_load_timeout,
                   elapsed, tab_backend_node_id, tab_object_id, ws_connected,
                   intercept, ready_state, doc_gen, enable_sent, enable_ok, polled,
                   observed_complete, t_closed, sent_after_close, fc_left,
                   fc_disable_sent, nops>>
    /\ UNCHANGED notTab

\* close: session.close() returned and close() with it
SessionClosed ==
    /\ t_pc = "session.close"
    /\ t_pc' = "idle"
    /\ t_outcome' = "returned"
    /\ t_closed' = TRUE
    /\ ws_connected' = FALSE
    /\ UNCHANGED <<t_op, event_enable, enable_step, page_load_timeout, elapsed,
                   tab_backend_node_id, tab_object_id, intercept, ready_state,
                   doc_gen, enable_sent, enable_ok, polled, observed_complete,
                   sent_after_close, fc_left, fc_disable_sent, nops>>
    /\ close_steps' = Append(close_steps, "session.close")
    /\ UNCHANGED session_cached
    /\ UNCHANGED notTab

\* expect_file_chooser: self.on(Page.FileChooserOpened, ..., temporary=True)
\* answered and the generator yields; or raised
HandlerRegistered(ok) ==
    /\ t_pc = "fc_on"
    /\ IF ok
       THEN t_pc' = "fc_body" /\ UNCHANGED t_outcome
       ELSE Raise(t_op, "error")
    /\ UNCHANGED <<t_op, event_enable, enable_step, page_load_timeout, elapsed,
                   tab_backend_node_id, tab_object_id, ws_connected, intercept,
                   ready_state, doc_gen, enable_sent, enable_ok, polled,
                   observed_complete, t_closed, sent_after_close, fc_left,
                   fc_disable_sent, nops>>
    /\ UNCHANGED <<session_cached, close_steps>>
    /\ UNCHANGED notTab

\* the body of the async with block ends: after a normal end the generator
\* resumes behind the yield and sends ...(enabled=False); an exception is
\* thrown into the generator at the yield, which has no handler around it
BlockEnds(raises) ==
    /\ t_pc = "fc_body"
    /\ IF raises
       THEN /\ fc_left' = "exception"
            /\ Raise(t_op, "error")
            /\ UNCHANGED fc_disable_sent
       ELSE /\ fc_left' = "normal"
            /\ fc_disable_sent' = TRUE
            /\ t_pc' = "fc_disable"
            /\ UNCHANGED t_outcome
    /\ UNCHANGED <<t_op, event_enable, enable_step, page_load_timeout, elapsed,
                   tab_backend_node_id, tab_object_id, ws_connected, intercept,
                   ready_state, doc_gen, enable_sent, enable_ok, polled,
                   observed_complete, t_closed, sent_after_close, nops>>
    /\ UNCHANGED <<session_cached, close_steps>>
    /\ UNCHANGED notTab

\* Page.SetInterceptFileChooserDialog(enabled=False) answered, or raised
DisableAnswered(ok) ==
    /\ t_pc = "fc_disable"
    /\ IF ok
       THEN intercept' = FALSE /\ t_pc' = "idle" /\ t_outcome' = "returned"
       ELSE Raise(t_op, "error") /\ UNCHANGED intercept
    /\ UNCHANGED <<t_op, event_enable, enable_step, page_load_timeout, elapsed,
                   tab_backend_node_id, tab_object_id, ws_connected, ready_state,
                   doc_gen, enable_sent, enable_ok, polled, observed_complete,
                   t_closed, sent_after_close, fc_left, fc_disable_sent, nops>>
    /\ UNCHANGED <<session_cached, close_steps>>
    /\ UNCHANGED notTab

\* the steps of the Tab's caller; every await in them ends, with an answer,
\* an error or the command's own timeout
TabSteps ==
    \/ \E ok \in BOOLEAN : CreateObj(ok)
    \/ \E ok \in BOOLEAN : EnableAnswered(ok)
    \/ \E ok \in BOOLEAN : PollAnswered(ok)
    \/ \E ok \in BOOLEAN : NodeAnswered(ok)
    \/ TabSleepDone
    \/ \E op \in TabOps : OpStart(op)
    \/ \E ok \in BOOLEAN : CommandAnswered(ok)
    \/ SessionRemoved
    \/ SessionClosed
    \/ \E ok \in BOOLEAN : HandlerRegistered(ok)
    \/ \E raises \in BOOLEAN : BlockEnds(raises)
    \/ \E ok \in BOOLEAN : DisableAnswered(ok)

TabNext == TabSteps \/ DocumentProgress

TabSpec == TabInit /\ [][TabNext]_tabVars

TabLiveSpec == TabSpec /\ WF_tabVars(TabSteps)

\* ============================================================ XPath lookup
\* a Python call binds every argument to a parameter, or raises TypeError
call_accepts(params, arguments) == arguments \subseteq params

\* try: ... finally: DOM.DiscardSearchResults, for each way out of the try
discard_on_success(left) == left = "continue"
discard_on(left) == TRUE

\* the lookup goes on behind the try statement as the try block was left
Leave(left) ==
    CASE left = "return" ->
           x_pc' = "idle" /\ x_outcome' = "list" /\ x_len' = 0
      [] left = "continue" ->
           x_pc' = "describe" /\ UNCHANGED <<x_outcome, x_len>>
      [] OTHER ->
           x_pc' = "idle" /\ x_outcome' = left /\ UNCHANGED x_len

\* the finally clause at the end of the try block
Finally(left, sid) ==
    /\ x_pending' = left
    /\ IF discard_on(left)
       THEN /\ x_pc' = "discard"
            /\ discard_sent' = [discard_sent EXCEPT ![sid] = @ + 1]
            /\ UNCHANGED <<x_outcome, x_len>>
       ELSE Leave(left) /\ UNCHANGED discard_sent

\* find_element(By.XPATH, value) / find_elements(By.XPATH, value) up to the
\* first command: webauto builds the script with JsScripts, src.browser
\* searches the document for a Tab and calls a function on the node for an
\* Element
Find(package, root, finder, matches) ==
    /\ x_pc = "idle"
    /\ nfinds < MaxFinds
    /\ nfinds' = nfinds + 1
    /\ x_package' = package
    /\ x_root' = root
    /\ x_finder' = finder
    /\ x_matches' = matches
    /\ x_pending' = "none"
    /\ x_len' = 0
    /\ IF package = "webauto"
       THEN IF call_accepts(JsScriptsParams, FindArguments)
            THEN x_pc' = "call" /\ x_outcome' = "none"
            ELSE x_pc' = "idle" /\ x_outcome' = "TypeError"
       ELSE /\ x_pc' = IF root = "Element" THEN "call" ELSE "perform"
            /\ x_outcome' = "none"
    /\ UNCHANGED <<search_live, cur_search, nsearch, discard_sent>>
    /\ x_described' = <<>>
    /\ x_elems' = <<>>
    /\ UNCHANGED notXPath

\* DOM.PerformSearch answered with a new search id and resultCount, or
\* raised; with no result the try block is left at once
PerformAnswered(ok) ==
    /\ x_pc = "perform"
    /\ IF ~ok
       THEN /\ x_pc' = "idle"
            /\ x_outcome' = "error"
            /\ UNCHANGED <<x_pending, x_len, search_live, cur_search, nsearch,
                           discard_sent>>
       ELSE /\ nsearch' = nsearch + 1
            /\ cur_search' = nsearch + 1
            /\ search_live' = search_live \cup {nsearch + 1}
            /\ IF x_matches = 0
               THEN Finally(IF x_finder = "find_elements" THEN "return"
                            ELSE "NoSuchElement", nsearch + 1)
               ELSE /\ x_pc' = "results"
                    /\ UNCHANGED <<x_pending, x_outcome, x_len, discard_sent>>
    /\ UNCHANGED <<x_package, x_root, x_finder, x_matches, nfinds>>
    /\ UNCHANGED <<x_described, x_elems>>
    /\ UNCHANGED notXPath

\* DOM.GetSearchResults answered, or raised
ResultsAnswered(ok) ==
    /\ x_pc = "results"
    /\ Finally(IF ok THEN "continue" ELSE "error", cur_search)
    /\ UNCHANGED <<x_package, x_root, x_finder, x_matches, search_live, cur_search,
                   nsearch, nfinds>>
    /\ UNCHANGED <<x_described, x_elems>>
    /\ UNCHANGED notXPath

\* DOM.DiscardSearchResults answered and the browser dropped the search; or
\* raised, and that exception leaves the lookup
DiscardAnswered(ok) ==
    /\ x_pc = "discard"
    /\ IF ok
       THEN search_live' = search_live \ {cur_search} /\ Leave(x_pending)
       ELSE /\ x_pc' = "idle"
            /\ x_outcome' = "error"
            /\ UNCHANGED <<x_len, search_live>>
    /\ UNCHANGED <<x_package, x_root, x_finder, x_matches, x_pending, cur_search,
                   nsearch, discard_sent, nfinds>>
    /\ UNCHANGED <<x_described, x_elems>>
    /\ UNCHANGED notXPath

\* Runtime.CallFunctionOn answered, or raised: singleNodeValue is null or
\* a node, the snapshot is an array whose properties are fetched
CallAnswered(ok) ==
    /\ x_pc = "call"
    /\ IF ~ok
       THEN x_pc' = "idle" /\ x_outcome' = "error"
       ELSE IF x_finder = "find_elements"
            THEN x_pc' = "props" /\ UNCHANGED x_outcome
            ELSE IF x_matches = 0
                 THEN x_pc' = "idle" /\ x_outcome' = "NoSuchElement"
                 ELSE x_pc' = "describe" /\ UNCHANGED x_outcome
    /\ UNCHANGED <<x_package, x_root, x_finder, x_matches, x_pending, x_len,
                   search_live, cur_search, nsearch, discard_sent, nfinds>>
    /\ UNCHANGED <<x_described, x_elems>>
    /\ UNCHANGED notXPath

\* RuntimeParser: Runtime.GetProperties answered, or raised; an array with
\* no index gives the empty list, which is returned
PropertiesAnswered(ok) ==
    /\ x_pc = "props"
    /\ IF ~ok
       THEN x_pc' = "idle" /\ x_outcome' = "error" /\ UNCHANGED x_len
       ELSE IF x_matches = 0
            THEN x_pc' = "idle" /\ x_outcome' = "list" /\ x_len' = 0
            ELSE x_pc' = "describe" /\ UNCHANGED <<x_outcome, x_len>>
    /\ UNCHANGED <<x_package, x_root, x_finder, x_matches, x_pending,
                   search_live, cur_search, nsearch, discard_sent, nfinds>>
    /\ UNCHANGED <<x_described, x_elems>>
    /\ UNCHANGED notXPath

\* browser: the RemoteObjectId of the k-th matched node, a string
Digits == <<"1", "2", "3", "4">>
ObjectIdOf(k) == <<"#", Digits[k]>>

\* object_ids as parse_remote_object returns it for a lookup with a match:
\* the objectId of singleNodeValue, or the list of the snapshot's objectIds
parsed(finder, matches) ==
    IF finder = "find_elements"
    THEN [type |-> "list", value |-> [k \in 1..matches |-> ObjectIdOf(k)]]
    ELSE [type |-> "str", value |-> ObjectIdOf(1)]

\* `for object_id in object_ids`: the items of a list, the characters of a str
iterate(object) ==
    IF object.type = "str"
    THEN [i \in 1..Len(object.value) |-> <<object.value[i]>>]
    ELSE object.value

\* the loop that builds the elements from object_ids: DOM.DescribeNode is
\* answered for the object id of a matched node and is an error for any
\* other string; ok is whether the first command is answered at all
describe_loop(finder, matches, ok) ==
    LET ids == iterate(parsed(finder, matches))
        bad == {i \in 1..Len(ids) :
                   ids[i] \notin {ObjectIdOf(k) : k \in 1..matches} \/ (~ok /\ i = 1)}
        last == IF bad = {} THEN Len(ids)
                ELSE CHOOSE i \in bad : \A j \in bad : i <= j IN
    [raised |-> bad # {},
     described |-> SubSeq(ids, 1, last),
     elems |-> [i \in 1..(IF bad = {} THEN last ELSE last - 1) |->
                   CHOOSE k \in 1..matches : ObjectIdOf(k) = ids[i]]]

\* the DOM.DescribeNode calls of the loop that builds the elements answered,
\* or one raised
DescribeAnswered(ok) ==
    /\ x_pc = "describe"
    /\ x_pc' = "idle"
    /\ IF x_root = "Element"
       THEN LET loop == describe_loop(x_finder, x_matches, ok) IN
            /\ x_described' = loop.described
            /\ x_elems' = loop.elems
            /\ IF loop.raised
               THEN x_outcome' = "error" /\ UNCHANGED x_len
               ELSE IF x_finder = "find_elements"
                    THEN x_outcome' = "list" /\ x_len' = Len(loop.elems)
                    ELSE x_outcome' = "element" /\ x_len' = 1
       ELSE /\ UNCHANGED <<x_described, x_elems>>
            /\ IF ~ok
               THEN x_outcome' = "error" /\ UNCHANGED x_len
               ELSE IF x_finder = "find_elements"
                    THEN x_outcome' = "list" /\ x_len' = x_matches
                    ELSE x_outcome' = "element" /\ x_len' = 1
    /\ UNCHANGED <<x_package, x_root, x_finder, x_matches, x_pending,
                   search_live, cur_search, nsearch, discard_sent, nfinds>>
    /\ UNCHANGED notXPath

XPathNext ==
    \/ \E package \in Packages, root \in Roots, finder \in Finders,
          matches \in 0..MaxMatches : Find(package, root, finder, matches)
    \/ \E ok \in BOOLEAN : PerformAnswered(ok)
    \/ \E ok \in BOOLEAN : ResultsAnswered(ok)
    \/ \E ok \in BOOLEAN : DiscardAnswered(ok)
    \/ \E ok \in BOOLEAN : CallAnswered(ok)
    \/ \E ok \in BOOLEAN : PropertiesAnswered(ok)
    \/ \E ok \in BOOLEAN : DescribeAnswered(ok)

XPathSpec == Init /\ [][XPathNext]_xpathVars

\* ================================================================= Element
ElementInit == Fresh("Element") /\ ElementInputs

Cmd(method, by, arg) == [method |-> method, by |-> by, arg |-> arg]

\* ElementFinder.node: the command that reads the node
NodeCmd(backend) ==
    IF backend = 0 THEN Cmd("DOM.getDocument", "depth", 0)
    ELSE Cmd("DOM.describeNode", "backendNodeId", backend)

\* the value of a coroutine property or method that is read without await
unawaited(value) == "coroutine"

\* ElementFinder.object_id: whether DOM.ResolveNode is sent
resolves_always(cached, backend) == backend # 0
resolves(cached, backend) == cached = 0 /\ backend # 0

\* the object_id property is read
ReadObjectId ==
    /\ e_nresolved < MaxResolves
    /\ e_op' = "object_id"
    /\ e_in' = <<>>
    /\ IF resolves(e_object_id, e_backend_node_id)
       THEN /\ e_nresolved' = e_nresolved + 1
            /\ e_object_id' = e_nresolved + 1
            /\ e_resolves' = e_resolves + 1
            /\ e_sent' = <<Cmd("DOM.resolveNode", "backendNodeId", e_backend_node_id)>>
       ELSE /\ e_sent' = <<>>
            /\ UNCHANGED <<e_nresolved, e_object_id, e_resolves>>
    /\ e_out' = [kind |-> "object_id", value |-> e_object_id']
    /\ UNCHANGED <<e_backend_node_id, e_old_ids>>
    /\ UNCHANGED notElement

\* backend_node_id is set to another value, as _wait_page_load does with None
SetBackendNodeId(backend) ==
    /\ backend # e_backend_node_id
    /\ e_backend_node_id' = backend
    /\ e_old_ids' = e_old_ids \cup ({e_object_id} \ {0})
    /\ e_resolves' = 0
    /\ e_op' = "backend_node_id"
    /\ e_in' = <<>>
    /\ e_out' = <<>>
    /\ e_sent' = <<>>
    /\ UNCHANGED <<e_object_id, e_nresolved>>
    /\ UNCHANGED notElement

\* _make_element: the NodeId that stands for no node
no_node_never(node_id) == FALSE
no_node(node_id) == node_id = 0

\* browser: the BackendNodeId of the node with this NodeId
BackendOf(node_id) == node_id

\* [await self._make_element(node_id=node_id) for node_id in node_ids]: the
\* comprehension ends at the first node id that raises
MakeElements(node_ids) ==
    LET bad == {i \in 1..Len(node_ids) : no_node(node_ids[i])}
        n == IF bad = {} THEN Len(node_ids)
             ELSE (CHOOSE i \in bad : \A j \in bad : i <= j) - 1 IN
    [raised |-> bad # {},
     sent |-> [i \in 1..n |-> Cmd("DOM.describeNode", "nodeId", node_ids[i])],
     elements |-> [i \in 1..n |-> BackendOf(node_ids[i])]]

\* the node ids DOM.QuerySelectorAll answers with
NodeIdLists ==
    {ids \in UNION {[1..n -> 1..MaxNodeIds] : n \in 0..MaxNodeIds} :
        \A i, j \in 1..Len(ids) : i # j => ids[i] # ids[j]}

\* find_element_by_selector / find_elements_by_selector with the browser's
\* answer to the query
FindBySelector(mode, node_ids) ==
    /\ mode = "single" => Len(node_ids) = 1
    /\ mode = "multiple" => node_ids \in NodeIdLists
    /\ e_op' = "find_by_selector"
    /\ e_in' = [mode |-> mode, node_ids |-> node_ids]
    /\ LET made == MakeElements(node_ids) IN
         /\ e_sent' = <<NodeCmd(e_backend_node_id),
                        Cmd(IF mode = "multiple" THEN "DOM.querySelectorAll"
                            ELSE "DOM.querySelector", "nodeId", 1)>> \o made.sent
         /\ e_out' = IF made.raised THEN [kind |-> "NoSuchElement"]
                      ELSE IF mode = "multiple"
                      THEN [kind |-> "list", elements |-> made.elements]
                      ELSE IF made.elements = <<>> THEN [kind |-> "NoSuchElement"]
                      ELSE [kind |-> "element", element |-> made.elements[1]]
    /\ UNCHANGED <<e_backend_node_id, e_object_id, e_nresolved, e_resolves,
                   e_old_ids>>
    /\ UNCHANGED notElement

\* node.attributes, [k0, v0, k1, v1, ...] with each name once
FlatAttrs ==
    {a \in UNION {[1..2 * n -> AttrNames \cup AttrValues] : n \in 0..MaxAttrs} :
        /\ \A i \in 1..Len(a) : a[i] \in (IF i % 2 = 1 THEN AttrNames ELSE AttrValues)
        /\ \A i, j \in 1..Len(a) : (i % 2 = 1 /\ j % 2 = 1 /\ i # j) => a[i] # a[j]}

\* the loop of get_attribute from index inx on, with the map built so far
RECURSIVE attribute_loop(_, _, _, _)
attribute_loop(_attrs, name, inx, attrs) ==
    IF inx > Len(_attrs)
    THEN IF name = "None" THEN [kind |-> "None"] ELSE [kind |-> "map", map |-> attrs]
    ELSE IF name = _attrs[inx]
         THEN [kind |-> "value", value |-> _attrs[inx + 1]]
         ELSE attribute_loop(_attrs, name, inx + 2,
                  [k \in DOMAIN attrs \cup {_attrs[inx]} |->
                      IF k = _attrs[inx] THEN _attrs[inx + 1] ELSE attrs[k]])

get_attribute(_attrs, name) == attribute_loop(_attrs, name, 1, <<>>)

\* get_attribute(name), or attrs with name None, on a node with these attributes
GetAttribute(_attrs, name) ==
    /\ e_op' = "get_attribute"
    /\ e_in' = [attributes |-> _attrs, name |-> name]
    /\ e_sent' = <<NodeCmd(e_backend_node_id)>>
    /\ e_out' = get_attribute(_attrs, name)
    /\ UNCHANGED <<e_backend_node_id, e_object_id, e_nresolved, e_resolves,
                   e_old_ids>>
    /\ UNCHANGED notElement

\* set_input_files(files) on a node with this tag and these attributes
SetInputFiles(tag, _attrs) ==
    /\ e_op' = "set_input_files"
    /\ e_in' = [tag |-> tag, attributes |-> _attrs]
    /\ IF unawaited(tag) # "input" \/ unawaited(get_attribute(_attrs, "type")) # "file"
       THEN /\ e_out' = [kind |-> "ElementNotFileInput"]
            /\ e_sent' = <<>>
       ELSE /\ e_out' = [kind |-> "None"]
            /\ e_sent' = <<Cmd("DOM.setFileInputFiles", "backendNodeId",
                               e_backend_node_id)>>
    /\ UNCHANGED <<e_backend_node_id, e_object_id, e_nresolved, e_resolves,
                   e_old_ids>>
    /\ UNCHANGED notElement

ElementNext ==
    \/ ReadObjectId
    \/ \E backend \in 0..MaxBackend : SetBackendNodeId(backend)
    \/ \E mode \in SelectorModes,
          node_ids \in NodeIdLists \cup {<<n>> : n \in 0..MaxNodeIds} :
            FindBySelector(mode, node_ids)
    \/ \E _attrs \in FlatAttrs, name \in AttrNames \cup {"None"} :
            GetAttribute(_attrs, name)
    \/ \E tag \in TagNames, _attrs \in FlatAttrs : SetInputFiles(tag, _attrs)

ElementSpec == ElementInit /\ [][ElementNext]_elementVars

\* ============================================================ RuntimeParser
ParseInit == Fresh("RuntimeParser") /\ p_remote_object \in RemoteObjects

\* str.isdigit(): every character is a digit, and U+00B2 is one
isdigit(name) == name \in {"0", "1", "SUPERSCRIPT TWO"}

\* isinstance(result, Runtime.RemoteObjectId): the check that keeps an item
keeps(result) == result.kind = "objectId"

\* parse_remote_object on a remote object that is no array
parse_item(remote_object) ==
    CASE remote_object.type = "object" /\ remote_object.subtype = "node" ->
           [kind |-> "objectId", objectId |-> remote_object.objectId]
      [] remote_object.type = "object" /\ remote_object.subtype = "null" ->
           [kind |-> "None"]
      [] remote_object.type \in {"string", "number"} ->
           [kind |-> "value", type |-> remote_object.type]
      [] OTHER -> [kind |-> "Exception"]

\* the loop over query_properties from index inx on, with res so far; an
\* exception of the recursive call leaves the loop
RECURSIVE properties_loop(_, _, _)
properties_loop(query_properties, inx, res) ==
    IF inx > Len(query_properties) THEN [kind |-> "list", list |-> res]
    ELSE IF ~isdigit(query_properties[inx].name)
         THEN properties_loop(query_properties, inx + 1, res)
         ELSE LET query_property_result == parse_item(query_properties[inx].value) IN
              IF query_property_result.kind = "Exception"
              THEN [kind |-> "Exception"]
              ELSE properties_loop(query_properties, inx + 1,
                       IF keeps(query_property_result)
                       THEN Append(res, query_property_result.objectId)
                       ELSE res)

parse_remote_object(remote_object) ==
    IF remote_object.type = "object" /\ remote_object.subtype = "array"
    THEN properties_loop(remote_object.properties, 1, <<>>)
    ELSE parse_item(remote_object)

\* parse_remote_object(session_executor, remote_object) run to its end
Parse ==
    /\ p_result = NotParsed
    /\ p_result' = parse_remote_object(p_remote_object)
    /\ UNCHANGED p_remote_object
    /\ UNCHANGED notParse

ParseSpec == ParseInit /\ [][Parse]_parseVars

\* ================================================================ claims

\* C1: every id create_future allocates on a transport is strictly greater
\* than every id it allocated earlier, so no id is ever reused, whatever
\* happened to the earlier calls (timeout, failure, cancellation).
C1_UniqueIncreasingIds ==
    \A i, j \in DOMAIN allocated : i < j => allocated[i] < allocated[j]

\* a second id was allocated after the first call timed out or failed
C1_Witness ==
    /\ Len(allocated) >= 2
    /\ cmdlog[allocated[1]].ret \in {"Timeout", "ConnectionClosed"}

\* C2: with several commands in flight and responses arriving in any order, a
\* call only ever completes with the payload the browser sent for its own id,
\* and the slot of a call that still awaits its response stays in the pending
\* table: a response for another id neither resolves nor removes it.
C2_OwnResponseOnly ==
    \A i \in Ids :
        /\ futures[i].st = "result" =>
               /\ cmdlog[i].reply = "result"
               /\ cmdlog[i].replyPayload = futures[i].val
        /\ cmdlog[i].ret = "Result" => futures[i].st = "result"
        /\ (\E c \in Callers : /\ calls[c].pc = "waiting"
                               /\ calls[c].id = i
                               /\ futures[i].st = "pending") => i \in pending

\* two calls overlapped, the later command was answered first and its call
\* completed while the earlier one still awaits its own response
C2_Witness ==
    /\ cmdlog[2].ret = "Result"
    /\ cmdlog[1].ret = "inflight"
    /\ futures[1].st = "pending"
    /\ 1 \in pending
    /\ \E c \in Callers : calls[c].pc = "waiting" /\ calls[c].id = 1

\* C3 (as claimed): when _cleanup has run, the pending table is empty.
C3_PendingEmptyAfterCleanup ==
    [][(\E i \in Ids : /\ cmdlog[i].ret # "ConnectionClosed"
                       /\ cmdlog'[i].ret = "ConnectionClosed")
          => pending' = {}]_vars

\* C4 (as claimed): a command that was awaiting its response when its
\* WebSocket closed never completes with a Timeout.
C4_NoTimeoutAfterClose ==
    \A i \in Ids : cmdlog[i].lostConn => cmdlog[i].ret # "Timeout"

\* C5 (as claimed): at most one WebSocket is open and at most one receive
\* task is alive at any time.
C5_AtMostOneConnection ==
    /\ Cardinality({s \in DOMAIN socks : socks[s].open}) <= 1
    /\ Cardinality({t \in DOMAIN tasks : tasks[t].pc \in {"new", "recv"}}) <= 1

\* C6: once execute_command has raised Timeout for a command, its slot is out
\* of the pending table, no later frame resolves it, and a response arriving
\* for it does not make the receive loop raise.
C6_TimeoutDropsLateResponse ==
    \A i \in Ids : cmdlog[i].ret = "Timeout" =>
        /\ i \notin pending
        /\ futures[i].st = "cancelled"
        /\ \A t \in DOMAIN tasks :
               ~(tasks[t].err = "invalid_state" /\ tasks[t].errId = i)

\* a command timed out, its response arrived afterwards and was dropped, and
\* the receive task that dropped it is back in recv
C6_Witness ==
    \E i \in Ids, t \in DOMAIN tasks :
        /\ cmdlog[i].ret = "Timeout"
        /\ cmdlog[i].handled = "dropped"
        /\ tasks[t].pc = "recv"
        /\ socks[tasks[t].sock].open

\* C7 (as claimed): after the task awaiting a command's response was
\* cancelled, the command's slot is out of the pending table and its late
\* response does not end the receive task.
C7_CancelRemovesSlot ==
    \A i \in Ids : (cmdlog[i].ret = "Cancelled" /\ futures[i].st = "cancelled") =>
        /\ i \notin pending
        /\ \A t \in DOMAIN tasks :
               ~(tasks[t].err = "invalid_state" /\ tasks[t].errId = i)

\* C8 (as claimed): once the receive loop has handled an error response for a
\* command whose call is awaiting it, that command's future is no longer
\* pending (it was rejected) and the call is not left waiting.
C8_ErrorResponseRejects ==
    \A i \in Ids :
        (cmdlog[i].reply = "error" /\ cmdlog[i].handled # "none"
                                  /\ cmdlog[i].ret = "inflight")
            => futures[i].st # "pending"

\* C9 (as claimed): once the receive loop has handled a result response for a
\* command whose call is awaiting it, that command's future holds the payload
\* and its slot is out of the pending table, whatever the payload.
C9_ResultResolvesSlot ==
    \A i \in Ids :
        (cmdlog[i].reply = "result" /\ cmdlog[i].handled # "none"
                                   /\ cmdlog[i].ret = "inflight")
            => /\ futures[i] = [st |-> "result", val |-> cmdlog[i].replyPayload]
               /\ i \notin pending

\* C10 (as claimed): a ping or execute_command that starts while the session
\* has no live connection first establishes a new one.
C10_ReconnectOnFirstUse ==
    [][(ncalls' = ncalls + 1 /\ ~IsOpen(socks, ws_connection))
          => \E c \in Callers : calls[c].pc = "idle" /\ calls'[c].pc = "connecting"]_vars

\* C11: every create_session request for one page id returns the same
\* session object, also when requests for that id interleave at the await on
\* address resolution.
C11_SameSessionPerId ==
    \A a \in returned : \A b \in returned :
        a.page_id = b.page_id => a.session = b.session

C13_OneShotAtMostOnce ==
    \A i \in DOMAIN invocations :
        invocations[i].one_shot =>
            /\ \A j \in DOMAIN invocations :
                    invocations[j].sub = invocations[i].sub => j = i
            /\ \A k \in DOMAIN router : router[k].id # invocations[i].sub

CountKey(arguments, key) ==
    Cardinality({k \in DOMAIN arguments : arguments[k].key = key})

\* C15: after a check(port) that completed, whatever list the caller supplied,
\* the list holds --remote-debugging-port=<port> exactly once, no other
\* --remote-debugging-port entry, --no-first-run and
\* --no-default-browser-check.
C15_PortExactlyOnce ==
    \A n \in DOMAIN check_log :
        check_log[n].err = "none" =>
            LET a == check_log[n].arguments IN
            /\ CountKey(a, "--remote-debugging-port") = 1
            /\ InArgs(a, Arg("--remote-debugging-port", check_log[n].port))
            /\ InArgs(a, Arg("--no-first-run", 0))
            /\ InArgs(a, Arg("--no-default-browser-check", 0))

WithoutPort(arguments) ==
    SelectSeq(arguments, LAMBDA a : a.key # "--remote-debugging-port")

\* C16: a second check(port) on an assembled Options object completes without
\* error and leaves the list the first call left, with
\* --remote-debugging-port present once.
C16_CheckIdempotent ==
    (Len(check_log) >= 2 /\ check_log[1].err = "none") =>
        /\ check_log[2].err = "none"
        /\ WithoutPort(check_log[2].arguments) = WithoutPort(check_log[1].arguments)
        /\ CountKey(check_log[2].arguments, "--remote-debugging-port") = 1

\* C17: after a check that completed the list holds exactly one
\* --user-data-dir entry: the user_data_dir option when given, else the
\* explicit argument when given, else a scratch directory.
C17_OneUserDataDir ==
    (Len(check_log) >= 1 /\ check_log[1].err = "none") =>
        LET a == check_log[1].arguments IN
        /\ CountKey(a, "--user-data-dir") = 1
        /\ options.user_data_dir # 0 =>
                InArgs(a, Arg("--user-data-dir", options.user_data_dir))
        /\ (options.user_data_dir = 0 /\ InDict(supplied, "--user-data-dir")) =>
                \E k \in DOMAIN supplied :
                    supplied[k].key = "--user-data-dir" /\ InArgs(a, supplied[k])

\* C18: over any sequence of run() and stop() calls a BrowserProcess owns at
\* most one spawned child at a time, the one it holds, and a run() issued
\* while a process is held spawns nothing.
C18_RunIdempotent ==
    [][/\ \A k \in DOMAIN children : children[k].owned => k = process
       /\ (nruns' = nruns + 1 /\ process # 0) => children' = children]_procVars

\* run() was called while a child was held, and a child was spawned again
\* after a stop()
C18_Witness ==
    /\ nruns >= 3
    /\ Len(children) = 2
    /\ process = 2

AllFalseBefore(pings, n) == \A k \in 1..(n - 1) : pings[k] = "False"

\* C19: a readiness check issues at most 5 pings, returns at the first ping
\* that returns true without a further ping, and raises BrowserLaunchError
\* exactly when all 5 pings returned false.
C19_ReadinessCheck ==
    /\ Len(ping_results) <= PingAttempts
    /\ AllFalseBefore(ping_results, Len(ping_results))
    /\ \A v \in DOMAIN verify_log :
        LET pings == verify_log[v].pings
            outcome == verify_log[v].outcome IN
        /\ Len(pings) <= PingAttempts
        /\ AllFalseBefore(pings, Len(pings))
        /\ (\E k \in DOMAIN pings : pings[k] = "True") => outcome = "returned"
        /\ outcome = "returned" => (pings # <<>> /\ pings[Len(pings)] = "True")
        /\ outcome = "BrowserLaunchError" <=>
                (Len(pings) = PingAttempts /\ AllFalseBefore(pings, PingAttempts + 1))

\* one check raised BrowserLaunchError after 5 failed pings and another
\* returned at its third ping
C19_Witness ==
    /\ \E v \in DOMAIN verify_log :
            verify_log[v].outcome = "BrowserLaunchError" /\ Len(verify_log[v].pings) = 5
    /\ \E v \in DOMAIN verify_log :
            verify_log[v].outcome = "returned" /\ Len(verify_log[v].pings) = 3

\* C: the created contexts Target.getBrowserContexts reported to init_manager
C20_C == all_created_contexts
\* E: the contexts of the targets that are neither extension nor devtools pages
C20_E ==
    {targets[k].browserContextId : k \in
        {j \in DOMAIN targets : targets[j].url \notin {"chrome-extension://", "devtools://"}}}

\* C20: init_manager sends Target.disposeBrowserContext for no context outside
\* C minus E, and when it has run to its end it has sent one for every
\* context of C minus E and the manager's context set is E.
C20_DisposeStaleOnly ==
    [][/\ disposed' \subseteq (all_created_contexts' \ C20_E)
       /\ (ctx_pc = "disposing" /\ ctx_pc' \in {"done", "KeyError"}) =>
            /\ disposed' = all_created_contexts' \ C20_E
            /\ contexts' = C20_E]_ctxVars

\* init_manager ran to its end, disposed a context that holds only an
\* extension page and kept a created context that holds a page
C20_Witness ==
    /\ ctx_pc = "done"
    /\ ncreated = 0
    /\ \E k \in DOMAIN targets :
            targets[k].url = "chrome-extension://" /\ targets[k].browserContextId \in disposed
    /\ \E c \in browser_contexts : c \in contexts

\* C21: after init_manager ran to its end with a non-empty E the current
\* context is in E, and when E holds a context that is not in C the current
\* context is one that is not in C.
C21_CurrentContextPreferred ==
    ctx_pc = "done" =>
        /\ cur_context_id \in C20_E
        /\ (C20_E \ C20_C) # {} => cur_context_id \notin C20_C

\* C22: when new_context is followed by delete_context of the context it
\* returned, the browser's set of contexts and the manager's contexts set are
\* what they were before new_context.
C22_NewDeleteRestores ==
    roundtrip.st = "deleted" =>
        /\ browser_contexts = roundtrip.browser_before
        /\ contexts = roundtrip.contexts_before

\* a new_context / delete_context pair has completed on a manager that held
\* several contexts before
C22_Witness ==
    /\ roundtrip.st = "deleted"
    /\ Cardinality(roundtrip.contexts_before) >= 2
    /\ roundtrip.browser_before # {}

\* the page targets of the context that are neither extension nor devtools
\* pages, by position in Target.getTargets order
C23_Valid ==
    {k \in DOMAIN tab_targets :
        /\ tab_targets[k].type = "page"
        /\ tab_targets[k].browserContextId = tab_context_id
        /\ tab_targets[k].url \notin {"chrome-extension://", "devtools://"}}

\* C23: get_tab(None) returns a Tab for the last of those targets, and when
\* there is none it returns a Tab for a blank target it created in the
\* context.
C23_GetTabLast ==
    (gt_pc = "returned" /\ gt_arg = 0) =>
        IF gt_result.created
        THEN /\ C23_Valid = {gt_result.tab}
             /\ gt_result.tab = Len(tab_targets)
             /\ tab_targets[gt_result.tab].url = "about:blank"
        ELSE /\ gt_result.tab \in C23_Valid
             /\ \A k \in C23_Valid : k <= gt_result.tab

\* get_tab(None) returned the second of two valid targets
C23_Witness ==
    /\ gt_pc = "returned"
    /\ gt_arg = 0
    /\ ~gt_result.created
    /\ Cardinality(C23_Valid) = 2
    /\ Len(tab_targets) = 2

\* get_tab(None) found no valid target although the browser has targets, and
\* returned a Tab for a blank target it created
C23_WitnessCreated ==
    /\ gt_pc = "returned"
    /\ gt_arg = 0
    /\ gt_result.created
    /\ Len(tab_targets) >= 2

LoadOps == {"create", "go_to", "refresh"}

WaitPcs == {"enable", "poll", "sleep", "node"}

\* C24: every _wait_page_load ends; create_obj, go_to and refresh return
\* normally only after document.readyState was read as "complete" in the
\* wait that follows the command, and the loop's TimeoutError is raised only
\* once page_load_timeout has elapsed.
C24_WaitPageLoadEnds ==
    /\ [](t_outcome = "returned" /\ t_op \in LoadOps => observed_complete)
    /\ [](t_outcome = "TimeoutError" => elapsed >= page_load_timeout)
    /\ (t_pc \in WaitPcs ~> t_pc \notin WaitPcs)

\* go_to returned after a poll that did not read "complete" and one that did
C24_Witness ==
    /\ t_op = "go_to"
    /\ t_outcome = "returned"
    /\ elapsed >= 1
    /\ observed_complete

\* refresh raised TimeoutError after the whole timeout of polls
C24_WitnessTimeout ==
    /\ t_op = "refresh"
    /\ t_outcome = "TimeoutError"
    /\ page_load_timeout = MaxTimeout

\* C25: each of Page.enable, DOM.enable and Runtime.enable is sent at most
\* once, a Tab that create_obj returned and every poll of document.readyState
\* has all three sent exactly once, and _event_enable is true only when all
\* three succeeded.
C25_EnableOnce ==
    /\ \A c \in DOMAIN enable_sent : enable_sent[c] <= 1
    /\ (polled \/ t_pc \notin {"none", "dead", "enable"}) =>
           \A c \in DOMAIN enable_sent : enable_sent[c] = 1
    /\ event_enable => enable_ok = DOMAIN enable_sent

\* a second wait, after go_to or refresh, has polled
C25_Witness ==
    /\ t_op \in {"go_to", "refresh"}
    /\ t_pc \in {"sleep", "node"}
    /\ doc_gen >= 2
    /\ event_enable

C27_NothingSentAfterClose == t_closed => ~sent_after_close

\* C28: an expect_file_chooser block that was left, normally or by an
\* exception, has sent Page.setInterceptFileChooserDialog{enabled: false}.
C28_InterceptionReleased == fc_left # "no" => fc_disable_sent

\* C29: every DOM.performSearch that succeeded has exactly one
\* DOM.discardSearchResults sent for its search id once the lookup is over,
\* and never more than one.
C29_SearchDiscarded ==
    /\ \A sid \in 1..MaxFinds : discard_sent[sid] <= 1
    /\ \A sid \in 1..nsearch :
           (x_pc = "idle" \/ sid # cur_search) => discard_sent[sid] = 1

\* two searches were made; the second one's DOM.getSearchResults failed, and
\* both were discarded
C29_Witness ==
    /\ x_pc = "idle"
    /\ nsearch = 2
    /\ x_outcome = "error"
    /\ x_pending = "error"
    /\ search_live = {}

\* C30: a lookup by an XPath that matches no node ends with the empty list
\* for find_elements and with NoSuchElement for find_element, on a Tab and
\* on an Element, unless a command failed.
C30_NoMatch ==
    (x_pc = "idle" /\ x_matches = 0 /\ x_outcome \notin {"none", "error"}) =>
        IF x_finder = "find_elements"
        THEN x_outcome = "list" /\ x_len = 0
        ELSE x_outcome = "NoSuchElement"

\* C40: get_tab(target_id) goes on to a Tab only for a valid page target of
\* this context, and for every other id it raises TabNotFoundError with no
\* Tab fetched or created.
C40_GetTabById ==
    gt_arg # 0 =>
        /\ gt_pc \in {"tab", "returned"} =>
               gt_arg \in C23_Valid /\ gt_result.tab = gt_arg
        /\ (gt_arg \notin C23_Valid /\ gt_pc # "error") =>
               gt_pc = "TabNotFoundError" /\ gt_result = NoTab

\* get_tab was called with a page target of the other context and raised
C40_Witness ==
    /\ gt_pc = "TabNotFoundError"
    /\ gt_arg \in DOMAIN tab_targets
    /\ tab_targets[gt_arg].type = "page"
    /\ tab_targets[gt_arg].url = "https://"
    /\ tab_targets[gt_arg].browserContextId # tab_context_id

\* C39: once an execute_command call has ended, with a result, a Timeout or
\* the connection closing, its command id is not a key of the pending table.
C39_FinishedNotPending ==
    \A i \in Ids :
        cmdlog[i].ret \in {"Result", "Timeout", "ConnectionClosed"} => i \notin pending

\* C37: a stopped child was sent terminate once and first, kill only after
\* the 3 s wait timed out, and stop leaves no process held; a child is never
\* signalled by a later stop.
C37_StopTerminatesOnce ==
    \A k \in DOMAIN children :
        /\ children[k].signals \in {<<>>, <<"terminate">>, <<"terminate", "kill">>}
        /\ (children[k].signals = <<"terminate", "kill">>) <=>
               (children[k].waited = "TimeoutExpired")
        /\ children[k].signals # <<>> => process # k /\ ~children[k].owned
        /\ (children[k].signals = <<>>) <=> (process = k)

\* one child was stopped in time, a later one had to be killed, and no process
\* is held
C37_Witness ==
    /\ Len(children) >= 2
    /\ children[1].signals = <<"terminate">>
    /\ children[1].waited = "returned"
    /\ children[2].signals = <<"terminate", "kill">>
    /\ process = 0

\* C38: close() does Page.close, then removes the session from the manager,
\* then closes it; a failed Page.close leaves the session cached and open;
\* after a close() that returned the manager caches no session for the target.
C38_CloseOrder ==
    /\ [](/\ \E n \in 0..3 :
              close_steps = SubSeq(<<"Page.close", "remove_session", "session.close">>, 1, n)
          /\ t_closed => ~session_cached)
    /\ [][(t_pc = "command" /\ t_op = "close" /\ t_outcome' = "error") =>
             UNCHANGED <<session_cached, ws_connected, close_steps>>]_tabVars

\* close() returned after its three steps
C38_Witness ==
    /\ t_op = "close"
    /\ t_outcome = "returned"
    /\ Len(close_steps) = 3
    /\ ~session_cached
    /\ ~ws_connected

\* C31: a single CSS lookup answered with NodeId 0 raises NoSuchElement, no
\* lookup sends DOM.describeNode for node 0, and a multiple lookup answered
\* with no node id returns the empty list.
C31_NoNodeNoSuchElement ==
    e_op = "find_by_selector" =>
        /\ \A i \in 1..Len(e_sent) :
               e_sent[i] # Cmd("DOM.describeNode", "nodeId", 0)
        /\ (e_in.mode = "single" /\ e_in.node_ids = <<0>>) =>
               e_out = [kind |-> "NoSuchElement"]
        /\ (e_in.mode = "multiple" /\ e_in.node_ids = <<>>) =>
               e_out = [kind |-> "list", elements |-> <<>>]

\* find_element_by_selector was answered with NodeId 0 and raised after the
\* query, with nothing sent behind it
C31_Witness ==
    /\ e_op = "find_by_selector"
    /\ e_in.mode = "single"
    /\ e_in.node_ids = <<0>>
    /\ e_out = [kind |-> "NoSuchElement"]
    /\ Len(e_sent) = 2
    /\ e_sent[2].method = "DOM.querySelector"

\* the node is an <input type="file">
C32_FileInput ==
    /\ e_in.tag = "input"
    /\ \E i \in 1..Len(e_in.attributes) :
           i % 2 = 1 /\ e_in.attributes[i] = "type" /\ e_in.attributes[i + 1] = "file"

\* C32: set_input_files sends DOM.setFileInputFiles exactly for an
\* <input type="file"> and raises ElementNotFileInput, sending nothing, for
\* every other element.
C32_SetInputFiles ==
    e_op = "set_input_files" =>
        IF C32_FileInput
        THEN \E i \in 1..Len(e_sent) : e_sent[i].method = "DOM.setFileInputFiles"
        ELSE e_out = [kind |-> "ElementNotFileInput"] /\ e_sent = <<>>

\* the map {k0: v0, k1: v1, ...} of a flat attribute sequence
C33_Map(_attrs) ==
    [k \in {_attrs[i] : i \in {j \in 1..Len(_attrs) : j % 2 = 1}} |->
        _attrs[(CHOOSE i \in 1..Len(_attrs) : i % 2 = 1 /\ _attrs[i] = k) + 1]]

\* C33: get_attribute(name) returns the value that follows name in the
\* node's attribute sequence, and get_attribute(None) returns the whole map.
C33_GetAttribute ==
    e_op = "get_attribute" =>
        /\ \A i \in 1..Len(e_in.attributes) :
               (i % 2 = 1 /\ e_in.attributes[i] = e_in.name) =>
                   e_out = [kind |-> "value", value |-> e_in.attributes[i + 1]]
        /\ e_in.name = "None" =>
               e_out = [kind |-> "map", map |-> C33_Map(e_in.attributes)]

\* C35: DOM.resolveNode is sent at most once while backend_node_id stays as
\* it is, and object_id never returns an id that was cached before
\* backend_node_id was set anew.
C35_ObjectIdCache ==
    /\ e_resolves <= 1
    /\ e_op = "object_id" => e_out.value \notin e_old_ids

\* the object ids of the nodes a lookup has to describe, in match order
C36_Matched ==
    [k \in 1..(IF x_finder = "find_elements" THEN x_matches
               ELSE IF x_matches = 0 THEN 0 ELSE 1) |-> ObjectIdOf(k)]

\* C36: an XPath lookup on an Element sends DOM.describeNode once for the
\* object id of each matched node, in match order, and for nothing else; a
\* lookup that returns has described every one of them and built one
\* Element per node with that node's BackendNodeId; in single mode that is
\* the one Element of the one object id returned.
C36_OneElementPerMatch ==
    x_root = "Element" =>
        /\ \E n \in 0..Len(C36_Matched) : x_described = SubSeq(C36_Matched, 1, n)
        /\ (x_pc = "idle" /\ x_outcome \in {"list", "element"}) =>
               /\ x_described = C36_Matched
               /\ x_elems = [k \in 1..Len(C36_Matched) |-> k]

\* the properties of an array that are array indices
C34_Indexed(property) == property.name \in {"0", "1"}

\* the indexed properties of an array whose value is a DOM node
C34_NodeItem(property) == C34_Indexed(property) /\ property.value.subtype = "node"

\* C34: parse_remote_object returns the objectId of a node, None for null,
\* the value of a string or number, and for an array whose indexed items
\* are nodes, strings, numbers or null the objectIds of exactly the indexed
\* items that are nodes, in order; every other remote object raises.
C34_ParseMapping ==
    p_result # NotParsed =>
        LET ro == p_remote_object
            nodes == SelectSeq(ro.properties, C34_NodeItem) IN
        CASE ro.type = "object" /\ ro.subtype = "node" ->
               p_result = [kind |-> "objectId", objectId |-> ro.objectId]
          [] ro.type = "object" /\ ro.subtype = "null" -> p_result = [kind |-> "None"]
          [] ro.type \in {"string", "number"} ->
               p_result = [kind |-> "value", type |-> ro.type]
          [] ro.type = "object" /\ ro.subtype = "array" ->
               (\A i \in 1..Len(ro.properties) :
                    C34_Indexed(ro.properties[i]) =>
                        ro.properties[i].value.type # "boolean") =>
                   p_result = [kind |-> "list",
                               list |-> [i \in 1..Len(nodes) |-> nodes[i].value.objectId]]
          [] OTHER -> p_result = [kind |-> "Exception"]

====
